---- MODULE Spec2Model ----
(***************************************************************************)
(* Model of the stream renderer of the Discord bridge                      *)
(* (src/src/discord/stream-renderer.ts) and of the formatters it calls     *)
(* (src/src/formatters/tool-call.ts).                                      *)
(*                                                                         *)
(* Strings.  A JavaScript string is modelled as a run-length encoded       *)
(* sequence of <<character, count>> pairs in canonical form (no empty run, *)
(* no two adjacent runs of the same character), so that equality of the    *)
(* encodings is equality of the strings and lengths are UTF-16 lengths.    *)
(* The code inspects only the newline and the backtick; every other        *)
(* character of a literal is written as a run of one letter that names     *)
(* the literal, with the literal's length.                                 *)
(***************************************************************************)
EXTENDS Integers, Sequences, FiniteSets, TLC

\* ------------------------------------------------------------------ strings

\* the two characters the code looks for: the newline and the backtick
NL == "nl"
BT == "bt"

SetMax(S) == CHOOSE x \in S : \A y \in S : y <= x
SetMin(S) == CHOOSE x \in S : \A y \in S : x <= y
MaxOf(a, b) == IF a >= b THEN a ELSE b
MinOf(a, b) == IF a <= b THEN a ELSE b

Rep(c, n) == IF n <= 0 THEN <<>> ELSE << <<c, n>> >>

Cat(a, b) ==
  IF a = <<>> THEN b
  ELSE IF b = <<>> THEN a
  ELSE IF a[Len(a)][1] = b[1][1]
       THEN SubSeq(a, 1, Len(a) - 1)
              \o << <<b[1][1], a[Len(a)][2] + b[1][2]>> >>
              \o Tail(b)
       ELSE a \o b

RECURSIVE SLen(_)
SLen(s) == IF s = <<>> THEN 0 ELSE s[1][2] + SLen(Tail(s))

\* s.slice(0, n)
RECURSIVE Take(_, _)
Take(s, n) ==
  IF n <= 0 \/ s = <<>> THEN <<>>
  ELSE IF s[1][2] <= n THEN <<s[1]>> \o Take(Tail(s), n - s[1][2])
  ELSE << <<s[1][1], n>> >>

\* s.slice(n)
RECURSIVE Drop(_, _)
Drop(s, n) ==
  IF n <= 0 \/ s = <<>> THEN s
  ELSE IF s[1][2] <= n THEN Drop(Tail(s), n - s[1][2])
  ELSE << <<s[1][1], s[1][2] - n>> >> \o Tail(s)

\* s.slice(0, n), a negative n counting from the end
SliceTo(s, n) == IF n < 0 THEN Take(s, SLen(s) + n) ELSE Take(s, n)

\* s.slice(n), a negative n counting from the end
SliceFrom(s, n) == IF n < 0 THEN Drop(s, SLen(s) + n) ELSE Drop(s, n)

\* offset of the first character of run k
RECURSIVE RunStart(_, _)
RunStart(s, k) == IF k <= 1 THEN 0 ELSE s[k - 1][2] + RunStart(s, k - 1)

\* s[i], 0-based; "" past the end
CharAt(s, i) ==
  IF i < 0 \/ Drop(s, i) = <<>> THEN "" ELSE Drop(s, i)[1][1]

\* the positions holding character c
PosOf(s, c) ==
  UNION { RunStart(s, k) .. (RunStart(s, k) + s[k][2] - 1) :
            k \in {j \in DOMAIN s : s[j][1] = c} }

\* p is a plain tuple of characters
MatchAt(s, p, i) ==
  /\ i >= 0
  /\ i + Len(p) <= SLen(s)
  /\ \A k \in 1..Len(p) : CharAt(s, i + k - 1) = p[k]

\* s.lastIndexOf(p, from)
LastIndexOf(s, p, from) ==
  LET C == {i \in PosOf(s, p[1]) :
              i <= (IF from < 0 THEN 0 ELSE from) /\ MatchAt(s, p, i)}
  IN IF C = {} THEN -1 ELSE SetMax(C)

\* s.indexOf(p, from)
IndexOf(s, p, from) ==
  LET C == {i \in PosOf(s, p[1]) : i >= from /\ MatchAt(s, p, i)}
  IN IF C = {} THEN -1 ELSE SetMin(C)

\* the runs of s written out, one character per element
RECURSIVE Expand(_)
Expand(s) ==
  IF s = <<>> THEN <<>>
  ELSE [i \in 1..s[1][2] |-> s[1][1]] \o Expand(Tail(s))

\* s.includes(t), t a non-empty encoded string
Contains(s, t) == \E i \in PosOf(s, t[1][1]) : MatchAt(s, Expand(t), i)

\* s.split(newline)
RECURSIVE SplitNL(_)
SplitNL(s) ==
  LET i == IndexOf(s, <<NL>>, 0)
  IN IF i = -1 THEN <<s>> ELSE <<Take(s, i)>> \o SplitNL(Drop(s, i + 1))

\* parts.join(sep)
RECURSIVE Join(_, _)
Join(parts, sep) ==
  IF parts = <<>> THEN <<>>
  ELSE IF Len(parts) = 1 THEN parts[1]
  ELSE Cat(Cat(parts[1], sep), Join(Tail(parts), sep))

\* the number of decimal digits of n >= 0
DigitsLen(n) == IF n < 10 THEN 1 ELSE IF n < 100 THEN 2 ELSE IF n < 1000 THEN 3 ELSE 4

\* ---------------------------------------------------------------- constants

DEBOUNCE_MS == 1500
MAX_MESSAGE_LENGTH == 1950
MAX_TOOL_HISTORY == 5
MAX_DIFF_LINES == 20
MAX_LINE_LENGTH == 100
MESSAGE_DEDUP_WINDOW_MS == 30000
\* the size of processedMessages above which handleMessage cleans it up
DedupCleanupSize == 100

\* StreamRendererOptions with the defaults the constructor fills in
DefaultOptions ==
  [debounceMs |-> DEBOUNCE_MS, maxMessageLength |-> MAX_MESSAGE_LENGTH,
   showToolCalls |-> TRUE, showPartialText |-> TRUE]

\* ----------------------------------------------------------------- literals
\* Each literal of the source: its newlines and backticks, and a run of a
\* letter of its own for the rest, of the literal's UTF-16 length.

ThinkingText == Rep("T", 16)
ProcessingText == Rep("P", 18)
SeparatorText == Rep("S", 23)
CompleteMarker == Rep("C", 12)
ErrorMarker == Rep("E", 13)
RunningPrefix == Rep("R", 11)
QueryFailedText == Rep("Q", 12)
TruncatedSuffix == Cat(Rep(NL, 2), Rep("t", 17))
StreamingSuffix == Cat(Rep(NL, 2), Rep("s", 42))

\* the UTF-16 length of a tool name
NameLen(name) ==
  CASE name = "Read" -> 4
    [] name = "Edit" -> 4
    [] name = "Write" -> 5
    [] OTHER -> 6

\* -------------------------------------------------------------- formatters

\* formatPath, for a path of at most MAX_PATH_DISPLAY_LENGTH characters
\* outside the home directory: the path between two backticks
formatPath(path) ==
  IF path = <<>> THEN <<>> ELSE Cat(Cat(Rep(BT, 1), path), Rep(BT, 1))

\* getToolEmoji: every emoji of the table, and the default, is two UTF-16 units
getToolEmoji(name) == Rep("e", 2)

formatToolCallCompact(name, input) ==
  CASE name = "Read" -> Cat(Cat(getToolEmoji(name), Rep("c", 9)), formatPath(input.file_path))
    [] name = "Write" -> Cat(Cat(getToolEmoji(name), Rep("c", 9)), formatPath(input.file_path))
    [] name = "Edit" -> Cat(Cat(getToolEmoji(name), Rep("c", 9)), formatPath(input.file_path))
    [] OTHER -> Cat(Cat(getToolEmoji(name), Rep("c", 1)), Rep("n", NameLen(name)))

truncateLine(line) ==
  IF SLen(line) <= MAX_LINE_LENGTH THEN line
  ELSE Cat(Take(line, MAX_LINE_LENGTH - 3), Rep(".", 3))

\* the loop of generateSimpleDiff over one side: at most MAX_DIFF_LINES / 2
\* lines with their sign, then the count of the lines left out
RECURSIVE DiffSide(_, _, _, _, _)
DiffSide(lines, k, sign, tailLen, total) ==
  IF k > Len(lines) THEN <<>>
  ELSE IF k - 1 >= MAX_DIFF_LINES \div 2
       THEN << Cat(Cat(Rep("m", 5), Rep("m", DigitsLen(total - (k - 1)))), Rep("m", tailLen)) >>
       ELSE << Cat(Rep(sign, 2), truncateLine(lines[k])) >>
              \o DiffSide(lines, k + 1, sign, tailLen, total)

generateSimpleDiff(oldStr, newStr) ==
  LET oldLines == SplitNL(oldStr)
      newLines == SplitNL(newStr)
  IN IF Len(oldLines) = 1 /\ Len(newLines) = 1
     THEN Join(<< Cat(Rep("-", 2), truncateLine(oldLines[1])),
                  Cat(Rep("+", 2), truncateLine(newLines[1])) >>, Rep(NL, 1))
     ELSE Join(DiffSide(oldLines, 1, "-", 20, Len(oldLines))
                 \o DiffSide(newLines, 1, "+", 18, Len(newLines)), Rep(NL, 1))

FenceOpen(lang) == Cat(Cat(Cat(Rep(NL, 1), Rep(BT, 3)), lang), Rep(NL, 1))
FenceClose == Cat(Rep(NL, 1), Rep(BT, 3))

formatDiff(input) ==
  LET header == Cat(Cat(Cat(Cat(Rep("h", 11), Rep(BT, 1)), input.file_path),
                        Cat(Rep(BT, 1), Rep("h", 2))),
                    IF input.replace_all THEN Rep("h", 18) ELSE <<>>)
  IN Cat(Cat(Cat(header, FenceOpen(Rep("d", 4))),
             generateSimpleDiff(input.old_string, input.new_string)),
         FenceClose)

\* the preview of formatWrite: the first 10 lines, each truncated
RECURSIVE PreviewLines(_, _)
PreviewLines(lines, k) ==
  IF k > Len(lines) \/ k > 10 THEN <<>>
  ELSE <<truncateLine(lines[k])>> \o PreviewLines(lines, k + 1)

formatWrite(input, content) ==
  LET lines == SplitNL(content)
      preview == Join(PreviewLines(lines, 1), Rep(NL, 1))
      moreLines == IF Len(lines) > 10
                   THEN Cat(Rep(NL, 1),
                            Cat(Cat(Rep("m", 5), Rep("m", DigitsLen(Len(lines) - 10))),
                                Rep("m", 12)))
                   ELSE <<>>
      header == Cat(Cat(Cat(Rep("w", 12), Rep(BT, 1)), input.file_path),
                    Cat(Rep(BT, 1), Rep("w", 2)))
  IN Cat(Cat(Cat(Cat(header, FenceOpen(input.lang)), preview), moreLines), FenceClose)

\* ---------------------------------------------------------- content builder

truncateText(text, maxLength) ==
  IF SLen(text) <= maxLength THEN text
  ELSE Cat(Take(text, MaxOf(0, maxLength - 40)), TruncatedSuffix)

ToolLine(tool) ==
  IF tool.name = "Edit" /\ tool.status = "complete" THEN formatDiff(tool.input)
  ELSE IF tool.name = "Write" /\ tool.status = "complete"
       THEN formatWrite(tool.input,
                        IF tool.output = <<>> THEN Rep("o", 9) ELSE tool.output)
       ELSE Cat(Cat(Rep("s", 1), Rep("c", 1)), formatToolCallCompact(tool.name, tool.input))

buildToolSection(toolCalls) ==
  Join([k \in DOMAIN toolCalls |-> ToolLine(toolCalls[k])], Rep(NL, 1))

\* the first record whose status is running, 0 when there is none
FirstRunning(toolCalls) ==
  LET K == {k \in DOMAIN toolCalls : toolCalls[k].status = "running"}
  IN IF K = {} THEN 0 ELSE SetMin(K)

RunningFooter(name) == Cat(Rep(NL, 1), Cat(RunningPrefix, Rep("R", NameLen(name) + 4)))
ErrorFooter(errorMessage) ==
  Cat(Cat(Rep(NL, 1), ErrorMarker), truncateText(errorMessage, 200))
CompleteFooter == Cat(Rep(NL, 1), CompleteMarker)

\* the footer with the completion marker pushed whenever isComplete holds
footerParts_CompleteAlways(r) ==
  (IF ~r.isComplete /\ FirstRunning(r.toolCalls) # 0
   THEN <<RunningFooter(r.toolCalls[FirstRunning(r.toolCalls)].name)>> ELSE <<>>)
  \o (IF r.hasError THEN <<ErrorFooter(r.errorMessage)>> ELSE <<>>)
  \o (IF r.isComplete THEN <<CompleteFooter>> ELSE <<>>)

footerParts(r) ==
  (IF ~r.isComplete /\ FirstRunning(r.toolCalls) # 0
   THEN <<RunningFooter(r.toolCalls[FirstRunning(r.toolCalls)].name)>> ELSE <<>>)
  \o (IF r.hasError THEN <<ErrorFooter(r.errorMessage)>> ELSE <<>>)
  \o (IF r.isComplete /\ ~r.hasError THEN <<CompleteFooter>> ELSE <<>>)

RECURSIVE SumLenPlus2(_)
SumLenPlus2(parts) ==
  IF parts = <<>> THEN 0 ELSE SLen(parts[1]) + 2 + SumLenPlus2(Tail(parts))

\* buildMessageContent, step 3: the parts joined, given the tool section, the
\* footer parts and the space left for the text
AssembleContent(r, allowTruncation, toolSection, footers, availableForText) ==
  LET tools == IF toolSection # <<>> THEN <<toolSection>> ELSE <<>>
      sep == IF toolSection # <<>> /\ r.currentText # <<>> THEN <<SeparatorText>> ELSE <<>>
      text == IF r.currentText # <<>>
              THEN << IF allowTruncation
                      THEN truncateText(r.currentText, availableForText)
                      ELSE r.currentText >>
              ELSE IF ~r.isComplete /\ Len(r.toolCalls) = 0
                   THEN <<ThinkingText>> ELSE <<>>
  IN Join(tools \o sep \o text \o footers, Rep(NL, 2))

\* buildMessageContent, step 2: the space left for the text
availableForText(r, toolSection, footers) ==
  MaxOf(100, r.opts.maxMessageLength
               - ((IF toolSection # <<>> THEN SLen(toolSection) + 2 ELSE 0)
                  + SumLenPlus2(footers)
                  + (IF toolSection # <<>> /\ r.currentText # <<>> THEN 24 ELSE 0))
               - 50)

BuildWith(r, allowTruncation, toolSection, footers) ==
  AssembleContent(r, allowTruncation, toolSection, footers,
                  availableForText(r, toolSection, footers))

OrProcessing_Empty(content) == content

OrProcessing(content) == IF content = <<>> THEN ProcessingText ELSE content

\* r: the renderer's fields (options included)
buildMessageContent(r, allowTruncation) ==
  OrProcessing(BuildWith(r, allowTruncation,
                         IF r.opts.showToolCalls /\ Len(r.toolCalls) > 0
                         THEN buildToolSection(r.toolCalls) ELSE <<>>,
                         footerParts(r)))

ensureMaxLength_NoCut(content, maxMessageLength) == content

ensureMaxLength(content, maxMessageLength) ==
  IF SLen(content) <= maxMessageLength THEN content
  ELSE Cat(SliceTo(content, maxMessageLength - 50), StreamingSuffix)

\* ------------------------------------------------------------------ splitter

\* the split point splitContent chooses for a remaining text longer than maxLen,
\* from the positions it has looked up
SplitPointFrom(maxLen, codeBlockEnd, afterCodeBlock, doubleNewline, singleNewline) ==
  IF codeBlockEnd > maxLen - 500 /\ codeBlockEnd > 100
  THEN IF afterCodeBlock # -1 /\ afterCodeBlock <= maxLen
       THEN afterCodeBlock + 1 ELSE maxLen
  ELSE IF doubleNewline > maxLen - 300 /\ doubleNewline > 100
       THEN doubleNewline + 2
       ELSE IF singleNewline > maxLen - 200 /\ singleNewline > 100
            THEN singleNewline + 1 ELSE maxLen

AfterCodeBlock(remaining, codeBlockEnd) == IndexOf(remaining, <<NL>>, codeBlockEnd + 4)

SplitPointAt(remaining, maxLen, codeBlockEnd) ==
  SplitPointFrom(maxLen, codeBlockEnd, AfterCodeBlock(remaining, codeBlockEnd),
                 LastIndexOf(remaining, <<NL, NL>>, maxLen),
                 LastIndexOf(remaining, <<NL>>, maxLen))

SplitPoint(remaining, maxLen) ==
  SplitPointAt(remaining, maxLen, LastIndexOf(remaining, <<NL, BT, BT, BT>>, maxLen))

\* the loop of splitContent, for maxLen > 0
RECURSIVE SplitLoop(_, _)
SplitOff(remaining, maxLen, splitPoint) ==
  <<Take(remaining, splitPoint)>> \o SplitLoop(Drop(remaining, splitPoint), maxLen)

SplitLoop(remaining, maxLen) ==
  IF SLen(remaining) = 0 THEN <<>>
  ELSE IF SLen(remaining) <= maxLen THEN <<remaining>>
  ELSE SplitOff(remaining, maxLen, SplitPoint(remaining, maxLen))

splitContent(content, maxMessageLength) == SplitLoop(content, maxMessageLength - 50)

\* -------------------------------------------------------------------- bounds

MaxEvents == 2          \* upstream messages consumed in one session
MaxTicks == 2           \* steps of the clock
MaxFailures == 2        \* Sink calls that fail
MaxTimerFlushes == 1    \* flushes started by timer callbacks and still awaiting the Sink
MaxHandlerTicks == 3    \* steps of the clock while the handler is followed
MaxRuns == 2            \* processMessage calls awaiting render at once
MaxMessages == 3        \* MessageCreate events

\* the clock advances by half the debounce interval
TickMs == DEBOUNCE_MS \div 2
\* Date.now() when render is called: any value past the debounce interval
StartTime == 2 * DEBOUNCE_MS

\* ------------------------------------------------------------------- inputs

X(n) == Rep("x", n)
\* n lines of w characters each, of a letter the running text does not use
LinesOf(n, w) == Join([k \in 1..n |-> Rep("y", w)], Rep(NL, 1))

NoInput == [file_path |-> <<>>, old_string |-> <<>>, new_string |-> <<>>,
            replace_all |-> FALSE, lang |-> <<>>]
ReadInput == [NoInput EXCEPT !.file_path = Rep("p", 6)]
BigEditInput == [NoInput EXCEPT !.file_path = Rep("p", 6),
                                !.old_string = LinesOf(10, 100),
                                !.new_string = LinesOf(10, 100)]

\* ----------------------------------------------------------------- the state

VARIABLES
  profile,          \* which inputs the upstream draws from in this session
  opts,             \* debounceMs, maxMessageLength, showToolCalls, showPartialText
  discordMessage,   \* the handle of the message being edited, 0 for null
  toolCalls,        \* ToolCallRecord[]
  currentText,
  isComplete,
  hasError,
  errorMessage,
  flushTimeout,     \* the time the armed timer is due, NoTimer for null
  timers,           \* the times the timers pending in the event loop are due
  lastFlushTime,
  pendingFlush,
  dirtySince,       \* history: the time of the oldest event no flush has rendered, Clean for none
  pc,               \* where render is
  mainFlush,        \* the flushNow call render is awaiting
  timerFlushes,     \* the flushNow calls started by timer callbacks, not yet settled
  now,              \* Date.now()
  consumed,         \* upstream messages consumed so far
  handles,          \* messages created in the channel so far
  failures,         \* Sink calls failed so far
  flushes,          \* flushNow calls started so far
  ncalls,           \* history: Sink calls issued so far
  lastCall,         \* history: the Sink call issued last, with the time since the one before
  posted,           \* history: posted[i] is how often sendMultipleMessages posted chunk i
  resultFlush,      \* history: the flushNow call of the first result message, 0 before it
  lastMsg,          \* history: the kind of the upstream message consumed last
  results,          \* history: result messages consumed so far
  stopped,          \* history: how the stream stopped: "open", "end" or "throw"
  lastSid,          \* history: the session_id of the message consumed last, "" for none
  processedMessages, \* MessageHandler: message id -> time it was taken up, 0 for no entry
  sessions,         \* SessionManager: the row of the thread in the sessions table
  runs,             \* MessageHandler: the processMessage calls awaiting render
  handled,          \* history: what the handler has started, skipped and completed
  sessionId,        \* render's local sessionId, NoSession for null
  returned,         \* the value render returned, Pending before it returns
  undelivered,      \* history: some flush had its edit and its fallback create fail
  cancelRequested,  \* history: the user of the session has asked to cancel the query
  fn                \* a function applied on its own: its inputs, its progress, its result

vars == <<profile, opts, discordMessage, toolCalls, currentText, isComplete, hasError,
          errorMessage, flushTimeout, timers, lastFlushTime, pendingFlush, dirtySince, pc, mainFlush,
          timerFlushes, now, consumed, handles, failures, flushes, ncalls, lastCall,
          posted, resultFlush, lastMsg, results, stopped, sessionId, returned,
          undelivered, cancelRequested, fn, lastSid, processedMessages, sessions, runs,
          handled>>

handler == <<processedMessages, sessions, runs, handled>>
hist == <<ncalls, lastCall, posted>>
upstream == <<lastMsg, results, stopped, lastSid>>

NoTimer == -1
Clean == -1
NoSession == "null"
Pending == "pending"
Idle == [name |-> "idle"]
NoFlush == [id |-> 0, stage |-> "none", op |-> "none", chunks |-> <<>>, i |-> 0,
            trigger |-> "none", upto |-> 0]
NoCall == [op |-> "none", target |-> 0, content |-> <<>>, at |-> 0, flush |-> 0,
           trigger |-> "none", idx |-> 0, fallback |-> FALSE, split |-> FALSE,
           others |-> 0, upto |-> 0, gap |-> -1]
SinkErrorText == Rep("k", 20)

\* the upstream of a scripted session, message by message; gap tells whether
\* time may pass before the message is consumed
SplitScript ==
  <<[kind |-> "delta", text |-> X(5000), gap |-> TRUE],
    [kind |-> "result", text |-> <<>>, gap |-> TRUE]>>
HelloScript ==
  <<[kind |-> "tool_use", text |-> <<>>, gap |-> TRUE],
    [kind |-> "delta", text |-> X(5), gap |-> TRUE],
    [kind |-> "delta", text |-> X(6), gap |-> FALSE],
    [kind |-> "tool_result", text |-> <<>>, gap |-> TRUE],
    [kind |-> "result", text |-> <<>>, gap |-> TRUE]>>
ToolsScript ==
  [i \in 1..(MAX_TOOL_HISTORY + 1) |-> [kind |-> "tool_use", text |-> <<>>, gap |-> TRUE]]
LedgerScript ==
  <<[kind |-> "tool_use", text |-> <<>>, gap |-> TRUE],
    [kind |-> "tool_use", text |-> <<>>, gap |-> TRUE],
    [kind |-> "tool_result", text |-> <<>>, gap |-> TRUE],
    [kind |-> "tool_result", text |-> <<>>, gap |-> TRUE],
    [kind |-> "tool_result", text |-> <<>>, gap |-> TRUE]>>
\* one tool invocation (call 1) as the SDK announces it with partial messages:
\* the content_block_start stream event, then the block in the assistant message
TwiceScript ==
  <<[kind |-> "tool_use", text |-> <<>>, gap |-> TRUE, via |-> "stream", call |-> 1],
    [kind |-> "tool_use", text |-> <<>>, gap |-> TRUE, via |-> "assistant", call |-> 1]>>
Scripted == profile \in {"split", "hello", "tools", "ledger", "twice"}
Script ==
  CASE profile = "split" -> SplitScript
    [] profile = "hello" -> HelloScript
    [] profile = "tools" -> ToolsScript
    [] profile = "twice" -> TwiceScript
    [] OTHER -> LedgerScript

\* the upstream can yield a message of this kind next
Yields(kind) ==
  IF Scripted THEN consumed < Len(Script) /\ Script[consumed + 1].kind = kind
  ELSE consumed < MaxEvents
\* the upstream can end now
MayEnd == Scripted => consumed = Len(Script)
\* time can pass now
TimePasses == (Scripted /\ consumed < Len(Script)) => Script[consumed + 1].gap

\* the inputs of a profile
Deltas ==
  IF Scripted THEN (IF Yields("delta") THEN {Script[consumed + 1].text} ELSE {})
  ELSE IF profile = "big" THEN {X(5), X(2000)}
  ELSE IF profile = "text" THEN {X(5), Cat(X(2), Rep(NL, 1))}
  ELSE {X(5)}
Snapshots == {X(3)}
ToolUses ==
  IF profile = "big"
  THEN {[name |-> "Read", input |-> ReadInput], [name |-> "Edit", input |-> BigEditInput]}
  ELSE IF profile = "tools"
  THEN \* every call of the script reads a file of its own
       {[name |-> "Read", input |-> [NoInput EXCEPT !.file_path = Rep("p", 6 + consumed)]]}
  ELSE {[name |-> "Read", input |-> ReadInput]}
ToolOutputs == IF Scripted THEN {Rep("o", 4)} ELSE {<<>>}
Successes == IF Scripted THEN {TRUE} ELSE BOOLEAN
ResultErrors == IF profile = "big" THEN {<<>>, Rep("f", 9)} ELSE {<<>>}
ThrownMessages == {Rep("g", 15)}

\* the renderer's fields as one record
Renderer ==
  [opts |-> opts, toolCalls |-> toolCalls, currentText |-> currentText,
   isComplete |-> isComplete, hasError |-> hasError, errorMessage |-> errorMessage]

\* the Sink calls of the session that are issued and not settled
InFlight ==
  (IF pc = "init" THEN 1 ELSE 0) + (IF mainFlush.stage # "none" THEN 1 ELSE 0)
    + Len(timerFlushes)

\* the message ids the handler is followed on, and ids taken up before
TrackedIds == {1, 2}
FillerIds == 3..(DedupCleanupSize + 2)
MessageIds == TrackedIds \cup FillerIds
\* processedMessages of a new handler, and of one that has just taken up the
\* messages of FillerIds
NoneProcessed == [i \in MessageIds |-> 0]
FillersProcessed == [i \in MessageIds |-> IF i \in FillerIds THEN StartTime ELSE 0]
\* no row for the thread in the sessions table
NoRow == [exists |-> FALSE, sessionId |-> "", messageCount |-> 0]
NoRun == [kind |-> "none", msg |-> 0, snapshot |-> "", resume |-> "", newId |-> "",
          cleared |-> FALSE]
NothingHandled ==
  [arrived |-> 0, started |-> [i \in TrackedIds |-> 0],
   lastStart |-> [i \in TrackedIds |-> 0], skipped |-> 0, removed |-> 0,
   completed |-> 0, last |-> NoRun]

\* the state of a renderer whose fields hold r, with the function frame f and
\* the handler's map pm
InitState(p, f, r, pm) ==
  /\ profile = p
  /\ opts = r.opts
  /\ discordMessage = 0
  /\ toolCalls = r.toolCalls
  /\ currentText = r.currentText
  /\ isComplete = r.isComplete
  /\ hasError = r.hasError
  /\ errorMessage = r.errorMessage
  /\ flushTimeout = NoTimer
  /\ timers = <<>>
  /\ lastFlushTime = 0
  /\ pendingFlush = FALSE
  /\ dirtySince = Clean
  /\ pc = "start"
  /\ mainFlush = NoFlush
  /\ timerFlushes = <<>>
  /\ now = StartTime
  /\ consumed = 0
  /\ handles = 0
  /\ failures = 0
  /\ flushes = 0
  /\ ncalls = 0
  /\ lastCall = NoCall
  /\ posted = <<>>
  /\ resultFlush = 0
  /\ lastMsg = "none"
  /\ results = 0
  /\ stopped = "open"
  /\ sessionId = NoSession
  /\ returned = Pending
  /\ undelivered = FALSE
  /\ cancelRequested = FALSE
  /\ fn = f
  /\ lastSid = ""
  /\ processedMessages = pm
  /\ sessions = NoRow
  /\ runs = <<>>
  /\ handled = NothingHandled

\* the fields of a renderer right after construction
FreshRenderer ==
  [opts |-> DefaultOptions, toolCalls |-> <<>>, currentText |-> <<>>,
   isComplete |-> FALSE, hasError |-> FALSE, errorMessage |-> <<>>]

\* the state after construction, for a session of the given profile
InitOf(p) == InitState(p, Idle, FreshRenderer, NoneProcessed)

\* ------------------------------------------------------------------ flushNow

\* one Sink call as the history records it: the operation, the handle edited
\* (0 for a create), the content, the time, the flushNow call that issued it
\* (0 for the placeholder of render) and what triggered that call, the index of
\* the chunk, whether it is the create after a failed edit, whether
\* sendMultipleMessages issued it, how many other Sink calls of the session were
\* in flight, how many upstream messages the content was built from, and (set
\* by Record) the time since the Sink call before it, -1 for the first
SinkCall(op, target, content, flush, trigger, idx, fallback, split, others, upto) ==
  [op |-> op, target |-> target, content |-> content, at |-> now, flush |-> flush,
   trigger |-> trigger, idx |-> idx, fallback |-> fallback, split |-> split,
   others |-> others, upto |-> upto, gap |-> -1]

\* the history after the Sink call c is issued
Record(c) ==
  /\ ncalls' = ncalls + 1
  /\ lastCall' = [c EXCEPT !.gap = IF lastCall.op = "none" THEN -1 ELSE c.at - lastCall.at]
  /\ posted' = IF ~c.split THEN posted
               ELSE IF c.idx > Len(posted) THEN Append(posted, 1)
               ELSE [posted EXCEPT ![c.idx] = @ + 1]

RecordAll(issued) == IF issued = <<>> THEN UNCHANGED hist ELSE Record(issued[1])

\* flushNow posting the first chunk of a split content as a new message
FlushFrom_CreatesFirst(r, dm, id, trigger, others, upto, multi, chunks) ==
  [act |-> [id |-> id,
            stage |-> IF multi THEN "chunks" ELSE IF dm # 0 THEN "edit" ELSE "create",
            op |-> IF dm # 0 /\ ~multi THEN "edit" ELSE "send",
            chunks |-> chunks, i |-> 1, trigger |-> trigger, upto |-> upto],
   call |-> SinkCall(IF dm # 0 /\ ~multi THEN "edit" ELSE "send",
                     IF multi THEN 0 ELSE dm, chunks[1], id, trigger, 1,
                     FALSE, multi, others, upto)]

\* flushNow from the content it built: the activation that awaits, and the
\* Sink call it has issued
FlushFrom(r, dm, id, trigger, others, upto, multi, chunks) ==
  [act |-> [id |-> id,
            stage |-> IF multi THEN "chunks" ELSE IF dm # 0 THEN "edit" ELSE "create",
            op |-> IF dm # 0 THEN "edit" ELSE "send",
            chunks |-> chunks, i |-> 1, trigger |-> trigger, upto |-> upto],
   call |-> SinkCall(IF dm # 0 THEN "edit" ELSE "send", dm, chunks[1], id, trigger, 1,
                     FALSE, multi, others, upto)]

\* the chunks flushNow sends for the content it built first
FlushChunks(r, content) ==
  IF r.isComplete /\ SLen(content) > r.opts.maxMessageLength
  THEN splitContent(content, r.opts.maxMessageLength)
  ELSE <<ensureMaxLength(IF r.isComplete THEN content ELSE buildMessageContent(r, TRUE),
                         r.opts.maxMessageLength)>>

FlushWith(r, dm, id, trigger, others, upto, content) ==
  FlushFrom(r, dm, id, trigger, others, upto,
            r.isComplete /\ SLen(content) > r.opts.maxMessageLength,
            FlushChunks(r, content))

\* flushNow up to its first await, on the renderer fields r with handle dm
FlushBegin(r, dm, id, trigger, others, upto) ==
  FlushWith(r, dm, id, trigger, others, upto, buildMessageContent(r, ~r.isComplete))

\* the Sink call act awaits has settled (ok or not): what flushNow does next
\*   next: the activation, NoFlush when flushNow has returned or thrown
\*   issued: the Sink calls issued in this step
\*   dm: the handle afterwards;  created: 1 when the settled call created a message
\*   threw: flushNow threw
FlushSettle(act, ok, dm, others) ==
  LET created == IF ok /\ act.op = "send" THEN 1 ELSE 0
      done == [next |-> NoFlush, issued |-> <<>>, dm |-> dm, created |-> created,
               threw |-> FALSE]
  IN CASE act.stage = "edit" ->
            IF ok THEN done
            ELSE [done EXCEPT !.next = [act EXCEPT !.stage = "fallback", !.op = "send"],
                              !.issued = <<SinkCall("send", 0, act.chunks[1], act.id,
                                                    act.trigger, 1, TRUE, FALSE, others,
                                                    act.upto)>>]
       [] act.stage = "fallback" ->
            IF ok THEN [done EXCEPT !.dm = handles + 1] ELSE done
       [] act.stage = "create" ->
            IF ok THEN [done EXCEPT !.dm = handles + 1] ELSE [done EXCEPT !.threw = TRUE]
       [] act.stage = "chunks" ->
            IF act.i < Len(act.chunks)
            THEN [done EXCEPT !.next = [act EXCEPT !.i = act.i + 1, !.op = "send"],
                              !.issued = <<SinkCall("send", 0, act.chunks[act.i + 1], act.id,
                                                    act.trigger, act.i + 1, FALSE, TRUE,
                                                    others, act.upto)>>]
            ELSE done

\* clearTimeout(h): the timer of the handle h no longer fires; null is ignored
clearTimeout(h) == SelectSeq(timers, LAMBDA d : d # h)

\* scheduleFlush arming its timer with no delay at all
scheduleFlush_NoDelay == IF flushTimeout # NoTimer THEN flushTimeout ELSE now

\* scheduleFlush adding the time since the last flush to the delay
scheduleFlush_AddsElapsed ==
  IF flushTimeout # NoTimer THEN flushTimeout
  ELSE now + MaxOf(0, opts.debounceMs + (now - lastFlushTime))

\* the value scheduleFlush leaves in flushTimeout
scheduleFlush ==
  IF flushTimeout # NoTimer THEN flushTimeout
  ELSE now + MaxOf(0, opts.debounceMs - (now - lastFlushTime))

\* scheduleFlush without its early return: every call sets another timer
armTimer_Always == Append(timers, scheduleFlush)

\* the pending timers after scheduleFlush: setTimeout adds one when none is armed
armTimer == IF flushTimeout # NoTimer THEN timers ELSE Append(timers, scheduleFlush)

\* flushNow without its clearTimeout: the armed timer survives the flush
MainFlushNow_KeepsTimer(r, dm, trigger, others, upto, nextpc) ==
  LET fb == FlushBegin(r, dm, flushes + 1, trigger, others, upto)
  IN /\ pendingFlush' = FALSE
     /\ dirtySince' = Clean
     /\ lastFlushTime' = now
     /\ flushTimeout' = flushTimeout
     /\ timers' = timers
     /\ flushes' = flushes + 1
     /\ mainFlush' = fb.act
     /\ Record(fb.call)
     /\ resultFlush' = IF trigger = "result" /\ resultFlush = 0 THEN flushes + 1
                       ELSE resultFlush
     /\ pc' = nextpc

\* render (or a handler it awaits) calls flushNow on the renderer fields r and
\* suspends at position nextpc
MainFlushNow(r, dm, trigger, others, upto, nextpc) ==
  LET fb == FlushBegin(r, dm, flushes + 1, trigger, others, upto)
  IN /\ pendingFlush' = FALSE
     /\ dirtySince' = Clean
     /\ lastFlushTime' = now
     /\ flushTimeout' = NoTimer
     /\ timers' = clearTimeout(flushTimeout)
     /\ flushes' = flushes + 1
     /\ mainFlush' = fb.act
     /\ Record(fb.call)
     /\ resultFlush' = IF trigger = "result" /\ resultFlush = 0 THEN flushes + 1
                       ELSE resultFlush
     /\ pc' = nextpc

\* ------------------------------------------------------------------- render

\* the session_id the messages of the stream carry
MessageSessionId == "s1"
\* the session_id a message can carry, "" when it carries none
SessionIds == IF profile = "ids" THEN {"", MessageSessionId, "s2"} ELSE {MessageSessionId}

\* render taking the session_id of every message that carries one
Capture_Latest(sid) == IF sid # "" THEN sid ELSE sessionId

\* render's sessionId after a message carrying sid: the first one seen is kept
Capture(sid) == IF sessionId = NoSession /\ sid # "" THEN sid ELSE sessionId

\* render is called: the placeholder is sent and awaited
RenderStart ==
  /\ pc = "start"
  /\ pc' = "init"
  /\ Record(SinkCall("send", 0, ThinkingText, 0, "initial", 1, FALSE, FALSE, 0, 0))
  /\ UNCHANGED <<handler, profile, opts, fn, cancelRequested, sessionId, returned, undelivered,
                 discordMessage, toolCalls, currentText, isComplete,
                 hasError, errorMessage, flushTimeout, timers, lastFlushTime, pendingFlush, dirtySince,
                 mainFlush, timerFlushes, now, consumed, handles, failures, flushes,
                 resultFlush, upstream>>

\* the placeholder is created: render enters the loop
PlaceholderSent ==
  /\ pc = "init"
  /\ pc' = "loop"
  /\ discordMessage' = handles + 1
  /\ handles' = handles + 1
  /\ UNCHANGED <<handler, profile, opts, fn, cancelRequested, sessionId, returned, undelivered,
                 toolCalls, currentText, isComplete, hasError, errorMessage,
                 flushTimeout, timers, lastFlushTime, pendingFlush, dirtySince, mainFlush, timerFlushes, now,
                 consumed, failures, flushes, hist, resultFlush, upstream>>

\* the placeholder's create fails: the catch block of render
PlaceholderFailed ==
  /\ pc = "init"
  /\ failures < MaxFailures
  /\ failures' = failures + 1
  /\ hasError' = TRUE
  /\ errorMessage' = SinkErrorText
  /\ MainFlushNow([Renderer EXCEPT !.hasError = TRUE, !.errorMessage = SinkErrorText],
                  discordMessage, "catch", InFlight - 1, consumed, "catch")
  /\ UNCHANGED <<handler, profile, opts, fn, cancelRequested, sessionId, returned, undelivered,
                 discordMessage, toolCalls, currentText, isComplete,
                 timerFlushes, now, consumed, handles, upstream>>

\* a message with nothing to render (system)
MsgSystem ==
  /\ pc = "loop"
  /\ Yields("system")
  /\ consumed' = consumed + 1
  /\ lastMsg' = "system"
  /\ UNCHANGED <<results, stopped>>
  /\ \E sid \in SessionIds : sessionId' = Capture(sid) /\ lastSid' = sid
  /\ UNCHANGED <<handler, profile, opts, fn, cancelRequested, returned, undelivered, discordMessage,
                 toolCalls, currentText, isComplete,
                 hasError, errorMessage, flushTimeout, timers, lastFlushTime, pendingFlush, dirtySince, pc,
                 mainFlush, timerFlushes, now, handles, failures, flushes, hist, resultFlush>>

\* handleAssistantMessage, a text block
MsgAssistantText(t) ==
  /\ pc = "loop"
  /\ Yields("assistant")
  /\ consumed' = consumed + 1
  /\ lastMsg' = "text"
  /\ UNCHANGED <<results, stopped>>
  /\ currentText' = t
  /\ pendingFlush' = TRUE
  /\ dirtySince' = IF pendingFlush THEN dirtySince ELSE now
  /\ flushTimeout' = scheduleFlush
  /\ timers' = armTimer
  /\ \E sid \in SessionIds : sessionId' = Capture(sid) /\ lastSid' = sid
  /\ UNCHANGED <<handler, profile, opts, fn, cancelRequested, returned, undelivered, discordMessage,
                 toolCalls, isComplete, hasError,
                 errorMessage, lastFlushTime, pc, mainFlush, timerFlushes, now, handles,
                 failures, flushes, hist, resultFlush>>

\* processMessage handing the text_delta to handleStreamEvent whatever
\* showPartialText is
MsgTextDelta_Always(f) ==
  /\ pc = "loop"
  /\ Yields("delta")
  /\ consumed' = consumed + 1
  /\ lastMsg' = "delta"
  /\ UNCHANGED <<results, stopped>>
  /\ currentText' = Cat(currentText, f)
  /\ pendingFlush' = TRUE
  /\ dirtySince' = IF pendingFlush THEN dirtySince ELSE now
  /\ flushTimeout' = scheduleFlush
  /\ timers' = armTimer
  /\ \E sid \in SessionIds : sessionId' = Capture(sid) /\ lastSid' = sid
  /\ UNCHANGED <<handler, profile, opts, fn, cancelRequested, returned, undelivered, discordMessage,
                 toolCalls, isComplete, hasError,
                 errorMessage, lastFlushTime, pc, mainFlush, timerFlushes, now, handles,
                 failures, flushes, hist, resultFlush>>

\* handleStreamEvent, content_block_delta with a text_delta
MsgTextDelta(f) ==
  /\ pc = "loop"
  /\ Yields("delta")
  /\ consumed' = consumed + 1
  /\ lastMsg' = "delta"
  /\ UNCHANGED <<results, stopped>>
  /\ IF opts.showPartialText
     THEN /\ currentText' = Cat(currentText, f)
          /\ pendingFlush' = TRUE
          /\ dirtySince' = IF pendingFlush THEN dirtySince ELSE now
          /\ flushTimeout' = scheduleFlush
          /\ timers' = armTimer
     ELSE UNCHANGED <<currentText, pendingFlush, dirtySince, flushTimeout, timers>>
  /\ \E sid \in SessionIds : sessionId' = Capture(sid) /\ lastSid' = sid
  /\ UNCHANGED <<handler, profile, opts, fn, cancelRequested, returned, undelivered, discordMessage,
                 toolCalls, isComplete, hasError,
                 errorMessage, lastFlushTime, pc, mainFlush, timerFlushes, now, handles,
                 failures, flushes, hist, resultFlush>>

\* handleStreamEvent, input_json_delta or content_block_stop
MsgBlockEvent ==
  /\ pc = "loop"
  /\ Yields("block")
  /\ consumed' = consumed + 1
  /\ lastMsg' = "block"
  /\ UNCHANGED <<results, stopped>>
  /\ IF opts.showPartialText
     THEN /\ pendingFlush' = TRUE
          /\ dirtySince' = IF pendingFlush THEN dirtySince ELSE now
          /\ flushTimeout' = scheduleFlush
          /\ timers' = armTimer
     ELSE UNCHANGED <<pendingFlush, dirtySince, flushTimeout, timers>>
  /\ \E sid \in SessionIds : sessionId' = Capture(sid) /\ lastSid' = sid
  /\ UNCHANGED <<handler, profile, opts, fn, cancelRequested, returned, undelivered, discordMessage,
                 toolCalls, currentText, isComplete,
                 hasError, errorMessage, lastFlushTime, pc, mainFlush, timerFlushes, now,
                 handles, failures, flushes, hist, resultFlush>>

\* handleToolStart keeping the first MAX_TOOL_HISTORY records instead of the last
pushToolCall_KeepsOldest(name, input) ==
  LET pushed == Append(toolCalls, [name |-> name, input |-> input, status |-> "running",
                                   output |-> <<>>, timestamp |-> now])
  IN IF Len(pushed) > MAX_TOOL_HISTORY THEN SubSeq(pushed, 1, MAX_TOOL_HISTORY) ELSE pushed

\* the script of the profile announces its next tool_use block this way
Announced(via) == profile = "twice" => via = TwiceScript[consumed + 1].via

\* the ledger after handleToolStart
pushToolCall(name, input) ==
  LET pushed == Append(toolCalls, [name |-> name, input |-> input, status |-> "running",
                                   output |-> <<>>, timestamp |-> now])
  IN IF Len(pushed) > MAX_TOOL_HISTORY
     THEN SubSeq(pushed, Len(pushed) - MAX_TOOL_HISTORY + 1, Len(pushed))
     ELSE pushed

\* a tool_use block, in an assistant message or as content_block_start: handleToolStart
MsgToolUse(tool, via) ==
  /\ pc = "loop"
  /\ Yields("tool_use")
  /\ Announced(via)
  /\ consumed' = consumed + 1
  /\ lastMsg' = "tool_use"
  /\ UNCHANGED <<results, stopped>>
  /\ IF via = "stream" /\ ~opts.showPartialText
     THEN UNCHANGED <<toolCalls, pendingFlush, dirtySince, lastFlushTime, flushTimeout, timers, flushes,
                      mainFlush, hist, pc, resultFlush>>
     ELSE /\ toolCalls' = pushToolCall(tool.name, tool.input)
          /\ MainFlushNow([Renderer EXCEPT !.toolCalls = pushToolCall(tool.name, tool.input)],
                          discordMessage, "urgent", InFlight, consumed + 1, "flush")
  /\ \E sid \in SessionIds : sessionId' = Capture(sid) /\ lastSid' = sid
  /\ UNCHANGED <<handler, profile, opts, fn, cancelRequested, returned, undelivered, discordMessage,
                 currentText, isComplete, hasError,
                 errorMessage, timerFlushes, now, handles, failures>>

\* handleToolComplete taking the oldest running record instead of the latest
completeToolCall_Oldest(output) ==
  LET K == {k \in DOMAIN toolCalls : toolCalls[k].status = "running"}
  IN IF K = {} THEN toolCalls
     ELSE [toolCalls EXCEPT ![SetMin(K)].status = "complete", ![SetMin(K)].output = output]

\* the ledger after handleToolComplete: the last running record becomes complete
completeToolCall(output) ==
  LET K == {k \in DOMAIN toolCalls : toolCalls[k].status = "running"}
  IN IF K = {} THEN toolCalls
     ELSE [toolCalls EXCEPT ![SetMax(K)].status = "complete", ![SetMax(K)].output = output]

\* a tool_result block of an assistant message: handleToolComplete
MsgToolResult(output) ==
  /\ pc = "loop"
  /\ Yields("tool_result")
  /\ consumed' = consumed + 1
  /\ lastMsg' = "tool_result"
  /\ UNCHANGED <<results, stopped>>
  /\ toolCalls' = completeToolCall(output)
  /\ MainFlushNow([Renderer EXCEPT !.toolCalls = completeToolCall(output)],
                  discordMessage, "urgent", InFlight, consumed + 1, "flush")
  /\ \E sid \in SessionIds : sessionId' = Capture(sid) /\ lastSid' = sid
  /\ UNCHANGED <<handler, profile, opts, fn, cancelRequested, returned, undelivered, discordMessage,
                 currentText, isComplete, hasError,
                 errorMessage, timerFlushes, now, handles, failures>>

\* processMessage, case result
MsgResult(success, errors) ==
  /\ pc = "loop"
  /\ Yields("result")
  /\ consumed' = consumed + 1
  /\ lastMsg' = IF success THEN "result_ok" ELSE "result_failed"
  /\ results' = results + 1
  /\ stopped' = stopped
  /\ isComplete' = TRUE
  /\ hasError' = IF success THEN hasError ELSE TRUE
  /\ errorMessage' = IF success THEN errorMessage
                     ELSE IF errors = <<>> THEN QueryFailedText ELSE errors
  /\ MainFlushNow([Renderer EXCEPT !.isComplete = TRUE,
                                   !.hasError = IF success THEN hasError ELSE TRUE,
                                   !.errorMessage = IF success THEN errorMessage
                                                    ELSE IF errors = <<>> THEN QueryFailedText
                                                    ELSE errors],
                  discordMessage, "result", InFlight, consumed + 1, "flush")
  /\ \E sid \in SessionIds : sessionId' = Capture(sid) /\ lastSid' = sid
  /\ UNCHANGED <<handler, profile, opts, fn, cancelRequested, returned, undelivered, discordMessage,
                 toolCalls, currentText, timerFlushes, now,
                 handles, failures>>

\* the stream ends: the final flush of render
StreamEnd ==
  /\ pc = "loop"
  /\ MayEnd
  /\ stopped' = "end"
  /\ UNCHANGED <<lastMsg, results, lastSid>>
  /\ MainFlushNow(Renderer, discordMessage, "final", InFlight, consumed, "final")
  /\ UNCHANGED <<handler, profile, opts, fn, cancelRequested, sessionId, returned, undelivered,
                 discordMessage, toolCalls, currentText, isComplete,
                 hasError, errorMessage, timerFlushes, now, consumed, handles, failures>>

\* consuming the stream throws: the catch block of render
StreamThrow(m) ==
  /\ pc = "loop"
  /\ stopped' = "throw"
  /\ UNCHANGED <<lastMsg, results, lastSid>>
  /\ hasError' = TRUE
  /\ errorMessage' = m
  /\ MainFlushNow([Renderer EXCEPT !.hasError = TRUE, !.errorMessage = m],
                  discordMessage, "catch", InFlight, consumed, "catch")
  /\ UNCHANGED <<handler, profile, opts, fn, cancelRequested, sessionId, returned, undelivered,
                 discordMessage, toolCalls, currentText, isComplete,
                 timerFlushes, now, consumed, handles, failures>>

\* the Sink call awaited by render's flushNow settles
MainSinkSettled(ok) ==
  /\ mainFlush.stage # "none"
  /\ ok \/ failures < MaxFailures
  /\ LET st == FlushSettle(mainFlush, ok, discordMessage, InFlight - 1)
     IN /\ failures' = IF ok THEN failures ELSE failures + 1
        /\ handles' = handles + st.created
        /\ discordMessage' = st.dm
        /\ IF st.next # NoFlush
           THEN \* flushNow goes on: the fallback create, or the next chunk
                /\ mainFlush' = st.next
                /\ RecordAll(st.issued)
                /\ UNCHANGED <<pc, hasError, errorMessage, pendingFlush, dirtySince, lastFlushTime,
                               flushTimeout, timers, flushes, resultFlush>>
           ELSE IF st.threw /\ pc # "catch"
           THEN \* flushNow threw inside the try block: the catch block flushes again
                /\ hasError' = TRUE
                /\ errorMessage' = SinkErrorText
                /\ MainFlushNow([Renderer EXCEPT !.hasError = TRUE,
                                                 !.errorMessage = SinkErrorText],
                                st.dm, "catch", InFlight - 1, consumed, "catch")
           ELSE \* flushNow returned, or threw out of the catch block
                /\ mainFlush' = NoFlush
                /\ pc' = IF pc = "flush" THEN "loop"
                         ELSE IF st.threw THEN "threw" ELSE "returned"
                /\ flushTimeout' = IF pc = "flush" THEN flushTimeout ELSE NoTimer
                /\ timers' = IF pc = "flush" THEN timers ELSE clearTimeout(flushTimeout)
                /\ UNCHANGED <<hasError, errorMessage, pendingFlush, dirtySince, lastFlushTime,
                               flushes, hist, resultFlush>>
  /\ returned' = IF pc' = "returned" THEN sessionId ELSE returned
  /\ undelivered' = (undelivered \/ (mainFlush.stage = "fallback" /\ ~ok))
  /\ UNCHANGED <<handler, profile, opts, fn, cancelRequested, sessionId, toolCalls, currentText,
                 isComplete, timerFlushes, now,
                 consumed, upstream>>

\* ------------------------------------------------------------ timer callback

\* the callback of setTimeout in scheduleFlush
TimerFire ==
  /\ Len(timerFlushes) < MaxTimerFlushes
  /\ \E k \in DOMAIN timers :
       /\ now >= timers[k]
       /\ timers' = SubSeq(timers, 1, k - 1) \o SubSeq(timers, k + 1, Len(timers))
  /\ flushTimeout' = NoTimer
  /\ IF pendingFlush
     THEN LET fb == FlushBegin(Renderer, discordMessage, flushes + 1, "timer", InFlight,
                               consumed)
          IN /\ pendingFlush' = FALSE
             /\ dirtySince' = Clean
             /\ lastFlushTime' = now
             /\ flushes' = flushes + 1
             /\ timerFlushes' = Append(timerFlushes, fb.act)
             /\ Record(fb.call)
     ELSE UNCHANGED <<pendingFlush, dirtySince, lastFlushTime, flushes, timerFlushes, hist>>
  /\ UNCHANGED <<handler, profile, opts, fn, cancelRequested, sessionId, returned, undelivered,
                 discordMessage, toolCalls, currentText, isComplete,
                 hasError, errorMessage, pc, mainFlush, now, consumed, handles, failures,
                 resultFlush, upstream>>

RemoveAt(seq, k) == SubSeq(seq, 1, k - 1) \o SubSeq(seq, k + 1, Len(seq))

\* the Sink call awaited by a timer callback's flushNow settles
TimerSinkSettled(k, ok) ==
  /\ k \in DOMAIN timerFlushes
  /\ ok \/ failures < MaxFailures
  /\ LET st == FlushSettle(timerFlushes[k], ok, discordMessage, InFlight - 1)
     IN /\ failures' = IF ok THEN failures ELSE failures + 1
        /\ handles' = handles + st.created
        /\ discordMessage' = st.dm
        /\ RecordAll(st.issued)
        /\ timerFlushes' = IF st.next # NoFlush
                           THEN [timerFlushes EXCEPT ![k] = st.next]
                           ELSE RemoveAt(timerFlushes, k)
  /\ undelivered' = (undelivered \/ (timerFlushes[k].stage = "fallback" /\ ~ok))
  /\ UNCHANGED <<handler, profile, opts, fn, cancelRequested, sessionId, returned, toolCalls,
                 currentText, isComplete, hasError, errorMessage,
                 flushTimeout, timers, lastFlushTime, pendingFlush, dirtySince, pc, mainFlush, now, consumed,
                 flushes, resultFlush, upstream>>

\* ------------------------------------------------------------------- clock

\* time passes while the session runs (StartTime is the time of render's call)
SessionRunning ==
  \/ pc \notin {"start", "returned", "threw"}
  \/ timerFlushes # <<>>

Tick ==
  /\ SessionRunning
  /\ TimePasses
  /\ now < StartTime + MaxTicks * TickMs
  /\ now' = now + TickMs
  /\ UNCHANGED <<handler, profile, opts, fn, cancelRequested, sessionId, returned, undelivered,
                 discordMessage, toolCalls, currentText, isComplete,
                 hasError, errorMessage, flushTimeout, timers, lastFlushTime, pendingFlush, dirtySince, pc,
                 mainFlush, timerFlushes, consumed, handles, failures, flushes, hist,
                 resultFlush, upstream>>

Next ==
  \/ RenderStart
  \/ PlaceholderSent
  \/ PlaceholderFailed
  \/ MsgSystem
  \/ \E t \in Snapshots : MsgAssistantText(t)
  \/ \E f \in Deltas : MsgTextDelta(f)
  \/ MsgBlockEvent
  \/ \E tool \in ToolUses, via \in {"assistant", "stream"} : MsgToolUse(tool, via)
  \/ \E output \in ToolOutputs : MsgToolResult(output)
  \/ \E success \in Successes, errors \in ResultErrors : MsgResult(success, errors)
  \/ StreamEnd
  \/ \E m \in ThrownMessages : StreamThrow(m)
  \/ \E ok \in BOOLEAN : MainSinkSettled(ok)
  \/ TimerFire
  \/ \E k \in 1..MaxTimerFlushes, ok \in BOOLEAN : TimerSinkSettled(k, ok)
  \/ Tick

Init == InitOf("small")
InitBig == InitOf("big")

\* sessions over short inputs
Spec == Init /\ [][Next]_vars
\* sessions over inputs that exceed the payload limit
SpecBig == InitBig /\ [][Next]_vars

\* sessions with partial text shown or not, over fragments that tell their order
SpecText ==
  /\ \E b \in BOOLEAN :
       InitState("text", Idle, [FreshRenderer EXCEPT !.opts.showPartialText = b],
                 NoneProcessed)
  /\ [][Next]_vars

\* some pending timer is due
TimerDue == \E k \in DOMAIN timers : timers[k] <= now

\* time passes in an event loop that runs every timer callback when it is due
TickTimely == ~TimerDue /\ Tick

NextTimely ==
  \/ RenderStart
  \/ PlaceholderSent
  \/ PlaceholderFailed
  \/ MsgSystem
  \/ \E t \in Snapshots : MsgAssistantText(t)
  \/ \E f \in Deltas : MsgTextDelta(f)
  \/ MsgBlockEvent
  \/ \E tool \in ToolUses, via \in {"assistant", "stream"} : MsgToolUse(tool, via)
  \/ \E output \in ToolOutputs : MsgToolResult(output)
  \/ \E success \in Successes, errors \in ResultErrors : MsgResult(success, errors)
  \/ StreamEnd
  \/ \E m \in ThrownMessages : StreamThrow(m)
  \/ \E ok \in BOOLEAN : MainSinkSettled(ok)
  \/ TimerFire
  \/ \E k \in 1..MaxTimerFlushes, ok \in BOOLEAN : TimerSinkSettled(k, ok)
  \/ TickTimely

\* sessions over short inputs whose timers fire on time
SpecTimely == Init /\ [][NextTimely]_vars

\* sessions whose messages carry different session ids, or none
NextIds ==
  \/ RenderStart
  \/ PlaceholderSent
  \/ PlaceholderFailed
  \/ MsgSystem
  \/ \E f \in Deltas : MsgTextDelta(f)
  \/ \E success \in Successes, errors \in ResultErrors : MsgResult(success, errors)
  \/ StreamEnd
  \/ \E m \in ThrownMessages : StreamThrow(m)
  \/ \E ok \in BOOLEAN : MainSinkSettled(ok)
  \/ TimerFire
  \/ \E k \in 1..MaxTimerFlushes, ok \in BOOLEAN : TimerSinkSettled(k, ok)
  \/ Tick
SpecIds == InitOf("ids") /\ [][NextIds]_vars

\* ------------------------------------------------------------ message handler

\* the clock advances by half the deduplication window
HandlerTickMs == MESSAGE_DEDUP_WINDOW_MS \div 2

\* the fields of the renderer, which the handler's steps leave alone
rendering ==
  <<opts, discordMessage, toolCalls, currentText, isComplete, hasError, errorMessage,
    flushTimeout, timers, lastFlushTime, pendingFlush, dirtySince, pc, mainFlush, timerFlushes, consumed,
    handles, failures, flushes, hist, resultFlush, upstream, sessionId, returned,
    undelivered, cancelRequested, fn>>

\* processedMessages.size
EntryCount(pm) == Cardinality({i \in MessageIds : pm[i] # 0})

\* handleMessage's cleanup deleting every entry
Cleaned_All ==
  IF EntryCount(processedMessages) > DedupCleanupSize
  THEN [i \in MessageIds |-> 0]
  ELSE processedMessages

\* processedMessages after the periodic cleanup of handleMessage
Cleaned ==
  IF EntryCount(processedMessages) > DedupCleanupSize
  THEN [i \in MessageIds |->
          IF now - processedMessages[i] > MESSAGE_DEDUP_WINDOW_MS THEN 0
          ELSE processedMessages[i]]
  ELSE processedMessages

\* the entries the cleanup deletes now
RemovedNow == EntryCount(processedMessages) - EntryCount(Cleaned)

\* handleMessage's test for a message taken up recently
IsDuplicate(pm, id) == pm[id] # 0 /\ now - pm[id] < MESSAGE_DEDUP_WINDOW_MS

\* SessionManager.updateSessionActivity on the row of the thread; newSessionId
\* is "" when the argument is left out
updateSessionActivity(row, newSessionId) ==
  IF ~row.exists THEN row
  ELSE [row EXCEPT !.messageCount = @ + 1,
                   !.sessionId = IF newSessionId # "" THEN newSessionId ELSE @]

\* the row processMessage works on: the thread's, or the one it creates
SessionRow == IF sessions.exists THEN sessions ELSE [NoRow EXCEPT !.exists = TRUE]

\* the processMessage call handleMessage starts for the message id
StartedRun(id) ==
  [kind |-> "running", msg |-> id, snapshot |-> SessionRow.sessionId,
   resume |-> IF SessionRow.sessionId # "" THEN SessionRow.sessionId ELSE "undefined",
   newId |-> "", cleared |-> FALSE]

\* a MessageCreate event for a message in the thread: handleMessage up to its
\* await of processMessage, and processMessage up to its await of render
MessageCreate(id) ==
  /\ profile = "handler"
  /\ handled.arrived < MaxMessages
  /\ IsDuplicate(Cleaned, id) \/ Len(runs) < MaxRuns
  /\ IF IsDuplicate(Cleaned, id)
     THEN /\ processedMessages' = Cleaned
          /\ handled' = [handled EXCEPT !.arrived = @ + 1, !.skipped = @ + 1,
                                        !.removed = @ + RemovedNow]
          /\ UNCHANGED <<sessions, runs>>
     ELSE /\ processedMessages' = [Cleaned EXCEPT ![id] = now]
          /\ sessions' = SessionRow
          /\ runs' = Append(runs, StartedRun(id))
          /\ handled' = [handled EXCEPT !.arrived = @ + 1, !.started[id] = @ + 1,
                                        !.lastStart[id] = now, !.last = StartedRun(id),
                                        !.removed = @ + RemovedNow]
  /\ UNCHANGED <<profile, now, rendering>>

\* render returns newSessionId to processMessage, which updates the session
RenderReturns(k, newSessionId) ==
  /\ profile = "handler"
  /\ k \in DOMAIN runs
  /\ sessions' = updateSessionActivity(sessions,
                    IF newSessionId # NoSession /\ newSessionId # runs[k].snapshot
                    THEN newSessionId ELSE "")
  /\ runs' = RemoveAt(runs, k)
  /\ handled' = [handled EXCEPT !.completed = @ + 1,
                                !.last = [runs[k] EXCEPT !.kind = "returned",
                                                         !.newId = newSessionId]]
  /\ UNCHANGED <<profile, now, rendering, processedMessages>>

\* render throws: the catch block of processMessage updates the activity
RenderThrows(k) ==
  /\ profile = "handler"
  /\ k \in DOMAIN runs
  /\ sessions' = updateSessionActivity(sessions, "")
  /\ runs' = RemoveAt(runs, k)
  /\ handled' = [handled EXCEPT !.completed = @ + 1,
                                !.last = [runs[k] EXCEPT !.kind = "threw"]]
  /\ UNCHANGED <<profile, now, rendering, processedMessages>>

HandlerTick ==
  /\ profile = "handler"
  /\ now < StartTime + MaxHandlerTicks * HandlerTickMs
  /\ now' = now + HandlerTickMs
  /\ UNCHANGED <<profile, handler, rendering>>

\* handleClearCommand, the click on 'Clear Session': clearSession deletes the
\* row of the thread (the command is accepted only while the thread has one, and
\* deleting a missing row does nothing); the runs awaiting render are marked
ClearConfirmed ==
  /\ profile = "handler"
  /\ sessions.exists
  /\ sessions' = NoRow
  /\ runs' = [k \in DOMAIN runs |-> [runs[k] EXCEPT !.cleared = TRUE]]
  /\ UNCHANGED <<profile, now, rendering, processedMessages, handled>>

\* a handler that is new, or has just taken up the messages of FillerIds
InitHandler ==
  \E pm \in {NoneProcessed, FillersProcessed} :
    InitState("handler", Idle, FreshRenderer, pm)
NextHandler ==
  \/ \E id \in TrackedIds : MessageCreate(id)
  \/ \E k \in 1..MaxRuns, newSessionId \in {NoSession, MessageSessionId, "s2"} :
       RenderReturns(k, newSessionId)
  \/ \E k \in 1..MaxRuns : RenderThrows(k)
  \/ HandlerTick
SpecHandler == InitHandler /\ [][NextHandler]_vars
\* the handler of a thread whose user may confirm /clear at any time
SpecClear == InitHandler /\ [][NextHandler \/ ClearConfirmed]_vars

\* the user of the session asks for the query to stop; render takes no signal
\* and the caller hands no abort controller to the query, so nothing reacts
CancelRequested ==
  /\ pc \in {"init", "loop", "flush"}
  /\ ~cancelRequested
  /\ cancelRequested' = TRUE
  /\ UNCHANGED <<handler, profile, opts, fn, sessionId, returned, undelivered, discordMessage,
                 toolCalls, currentText, isComplete, hasError, errorMessage,
                 flushTimeout, timers, lastFlushTime, pendingFlush, dirtySince, pc, mainFlush, timerFlushes,
                 now, consumed, handles, failures, flushes, hist, resultFlush, upstream>>

\* sessions during which a cancellation may be asked for
SpecCancel == Init /\ [][Next \/ CancelRequested]_vars

\* sessions over the scripted upstreams
NextScript ==
  \/ RenderStart
  \/ PlaceholderSent
  \/ PlaceholderFailed
  \/ \E f \in Deltas : MsgTextDelta(f)
  \/ \E tool \in ToolUses, via \in {"assistant", "stream"} : MsgToolUse(tool, via)
  \/ \E output \in ToolOutputs : MsgToolResult(output)
  \/ \E success \in Successes, errors \in ResultErrors : MsgResult(success, errors)
  \/ StreamEnd
  \/ \E ok \in BOOLEAN : MainSinkSettled(ok)
  \/ TimerFire
  \/ \E k \in 1..MaxTimerFlushes, ok \in BOOLEAN : TimerSinkSettled(k, ok)
  \/ Tick
SpecScript ==
  (\E p \in {"split", "hello", "tools", "ledger", "twice"} : InitOf(p)) /\ [][NextScript]_vars

\* ------------------------------------------- the content of a flush, on its own

\* renderer fields a session can hold when flushNow runs
BuildTexts ==
  {<<>>, X(5), X(1850), X(1900), X(1950), X(2000), X(5000),
   Cat(X(1700), Cat(Rep(NL, 2), X(600)))}
RunningRead ==
  [name |-> "Read", input |-> ReadInput, status |-> "running", output |-> <<>>,
   timestamp |-> StartTime]
CompleteEdit ==
  [name |-> "Edit", input |-> BigEditInput, status |-> "complete", output |-> <<>>,
   timestamp |-> StartTime]
BuildLedgers ==
  {<<>>, <<RunningRead>>, <<CompleteEdit>>, <<CompleteEdit, RunningRead>>,
   <<CompleteEdit, CompleteEdit, CompleteEdit, CompleteEdit, CompleteEdit>>}
BuildErrors == {Rep("g", 15), Rep("g", 2500)}
BuildOptions == {DefaultOptions, [DefaultOptions EXCEPT !.showToolCalls = FALSE]}
BuildRenderers ==
  {[opts |-> o, toolCalls |-> l, currentText |-> t, isComplete |-> c,
    hasError |-> FALSE, errorMessage |-> <<>>] :
     o \in BuildOptions, l \in BuildLedgers, t \in BuildTexts, c \in BOOLEAN}
  \cup
  {[opts |-> o, toolCalls |-> l, currentText |-> t, isComplete |-> c,
    hasError |-> TRUE, errorMessage |-> e] :
     o \in BuildOptions, l \in BuildLedgers, t \in BuildTexts, c \in BOOLEAN,
     e \in BuildErrors}

InitBuild ==
  \E r \in BuildRenderers :
    InitState("big", [name |-> "flushNow", done |-> FALSE, out |-> <<>>], r,
              NoneProcessed)

\* flushNow up to its Sink calls: the contents it hands to the Sink, in order
FlushContents ==
  /\ fn.name = "flushNow"
  /\ ~fn.done
  /\ fn' = [fn EXCEPT !.done = TRUE,
                      !.out = FlushChunks(Renderer,
                                          buildMessageContent(Renderer, ~isComplete))]
  /\ UNCHANGED <<handler, profile, opts, discordMessage, toolCalls, currentText, isComplete,
                 hasError, errorMessage, flushTimeout, timers, lastFlushTime, pendingFlush, dirtySince, pc,
                 mainFlush, timerFlushes, now, consumed, handles, failures, flushes,
                 hist, resultFlush, upstream, sessionId, returned, undelivered,
                 cancelRequested>>

\* flushNow's content, over the renderer fields of BuildRenderers
SpecBuild == InitBuild /\ [][FlushContents]_vars

\* ------------------------------------------------------ splitContent, on its own

MaxChunks == 6          \* iterations of splitContent's loop that are followed

SplitLimits == {40, 50, 51, 150, MAX_MESSAGE_LENGTH}
SplitContents ==
  {X(30), X(100), X(120), X(2000), X(5000),
   Cat(X(1700), Cat(Rep(NL, 2), X(600))),
   Cat(X(1800), Cat(Rep(NL, 1), X(500))),
   Cat(X(1896), Cat(Rep(NL, 1), Cat(Rep(BT, 3), Cat(Rep(NL, 1), X(300))))),
   Cat(X(1800), Cat(Rep(NL, 2), Cat(X(97), Cat(Rep(NL, 1), Cat(Rep(BT, 3), X(300))))))}

InitSplit ==
  \E content \in SplitContents, limit \in SplitLimits :
    InitState("big", [name |-> "splitContent", content |-> content, limit |-> limit,
                      remaining |-> content, chunks |-> <<>>, done |-> FALSE],
              FreshRenderer, NoneProcessed)

\* one pass of splitContent's while loop, or its return
SplitStep ==
  /\ fn.name = "splitContent"
  /\ ~fn.done
  /\ Len(fn.chunks) < MaxChunks
  /\ fn' = IF SLen(fn.remaining) = 0 THEN [fn EXCEPT !.done = TRUE]
           ELSE IF SLen(fn.remaining) <= fn.limit - 50
           THEN [fn EXCEPT !.chunks = Append(@, fn.remaining), !.done = TRUE]
           ELSE [fn EXCEPT !.chunks =
                             Append(@, SliceTo(fn.remaining,
                                               SplitPoint(fn.remaining, fn.limit - 50))),
                           !.remaining =
                             SliceFrom(@, SplitPoint(fn.remaining, fn.limit - 50))]
  /\ UNCHANGED <<handler, profile, opts, discordMessage, toolCalls, currentText, isComplete,
                 hasError, errorMessage, flushTimeout, timers, lastFlushTime, pendingFlush, dirtySince, pc,
                 mainFlush, timerFlushes, now, consumed, handles, failures, flushes,
                 hist, resultFlush, upstream, sessionId, returned, undelivered,
                 cancelRequested>>

\* splitContent, over the contents and limits above
SpecSplit == InitSplit /\ [][SplitStep]_vars

\* ------------------------------------------------------------------- claims

\* C1: at most one Sink call of the session is in flight at any time: no
\* create or edit is issued while another call of the session is unsettled.
C1_OneSinkCallInFlight == InFlight <= 1

\* C2: scheduleFlush arms the debounce timer only when no Sink call of a flush
\* is issued and unsettled.
C2_TimerArmedOnlyWhenIdle ==
  [][(flushTimeout = NoTimer /\ flushTimeout' # NoTimer) => InFlight = 0]_vars

\* C3: once the flush of the first result message is issued, no further flush
\* starts, no Sink call is issued except by that flush, and no timer is armed.
C3_NothingAfterResultFlush ==
  [][resultFlush # 0 =>
       /\ flushes' = flushes
       /\ flushTimeout' = NoTimer
       /\ (ncalls' # ncalls => lastCall'.flush = resultFlush)]_vars

\* C4: over the whole session no continuation chunk (a chunk after the first)
\* of the final content is created as a new message more than once.
C4_ChunksPostedOnce == \A i \in DOMAIN posted : i > 1 => posted[i] <= 1

\* C5: a flush issues its first Sink call less than debounceMs after the Sink
\* call before it only if it is the very first flush, or if an urgent event
\* (tool start, tool finish, result) triggered it while no other Sink call was
\* in flight.
C5_Exempt(c) ==
  \/ c.flush <= 1
  \/ c.trigger \in {"urgent", "result"} /\ c.others = 0
  \/ c.fallback
  \/ c.idx > 1
C5_OneCallPerWindow ==
  (lastCall.gap >= 0 /\ lastCall.gap < opts.debounceMs) => C5_Exempt(lastCall)

\* C6: when the stream has delivered one result message as its last message and
\* has ended, and every Sink call has settled, the content of the Sink call
\* issued last contains the marker of the result: the completion marker after
\* a successful result, the error marker after a failed one.
C6_Quiescent ==
  /\ pc = "returned"
  /\ InFlight = 0
  /\ stopped = "end"
  /\ results = 1
  /\ lastMsg \in {"result_ok", "result_failed"}
C6_LastCallHasMarker ==
  C6_Quiescent =>
    Contains(lastCall.content,
             IF lastMsg = "result_ok" THEN CompleteMarker ELSE ErrorMarker)

\* C7: when the stream ends without a result message, the content of the final
\* flush carries a terminal marker and shows neither the Thinking placeholder
\* nor a Running suffix.
C7_FinalFlushMarksEnded ==
  (stopped = "end" /\ results = 0 /\ lastCall.trigger = "final") =>
    /\ Contains(lastCall.content, CompleteMarker) \/ Contains(lastCall.content, ErrorMarker)
    /\ ~Contains(lastCall.content, ThinkingText)
    /\ ~Contains(lastCall.content, RunningPrefix)

\* C8: when consuming the stream throws, the flush of the catch block delivers
\* a content that contains the error marker followed by the thrown message.
C8_CatchFlushHasError ==
  (stopped = "throw" /\ pc = "catch" /\ mainFlush.stage # "none") =>
    \E i \in DOMAIN mainFlush.chunks :
      Contains(mainFlush.chunks[i], Cat(ErrorMarker, errorMessage))

\* C9: on every urgent event (tool start, tool finish, result) the pending
\* timer is cancelled and a flush is issued in the same step, at the time of
\* the event, and render consumes nothing more until that flush has settled;
\* the content issued is what the builder yields from the renderer's fields
\* right after the event, built from the events consumed up to and including
\* it.
C9_UrgentStep ==
  /\ consumed' = consumed + 1
  /\ lastMsg' \in {"tool_use", "tool_result", "result_ok", "result_failed"}
C9_Built(r) == FlushChunks(r, buildMessageContent(r, ~r.isComplete))
C9_After ==
  [opts |-> opts', toolCalls |-> toolCalls', currentText |-> currentText',
   isComplete |-> isComplete', hasError |-> hasError', errorMessage |-> errorMessage']
C9_UrgentFlushesAtOnce ==
  [][C9_UrgentStep =>
       /\ flushTimeout' = NoTimer
       /\ ~pendingFlush'
       /\ flushes' = flushes + 1
       /\ ncalls' = ncalls + 1
       /\ lastCall'.flush = flushes'
       /\ lastCall'.at = now
       /\ lastCall'.upto = consumed'
       /\ pc' = "flush"
       /\ mainFlush'.id = flushes'
       /\ mainFlush'.chunks = C9_Built(C9_After)
       /\ lastCall'.content = mainFlush'.chunks[1]]_vars
\* a tool start arrives while the timer armed by a text delta is pending: the
\* timer is gone and the one flush so far carries the text
C9_Witness ==
  /\ lastMsg = "tool_use"
  /\ pc = "flush"
  /\ consumed = 2
  /\ currentText # <<>>
  /\ flushes = 1
  /\ lastCall.flush = 1
  /\ lastCall.trigger = "urgent"
  /\ flushTimeout = NoTimer
  /\ Contains(lastCall.content, currentText)

\* C10: when an edit awaited by a flush fails, whether it is the edit of a live
\* single-message flush or of the first chunk of a split flush, the flush
\* issues at once a create with the content of that edit; when that create
\* succeeds the message created becomes the handle.
C10_Settled ==
  IF mainFlush' # mainFlush THEN mainFlush
  ELSE timerFlushes[CHOOSE k \in DOMAIN timerFlushes :
                      \/ timerFlushes' = RemoveAt(timerFlushes, k)
                      \/ /\ Len(timerFlushes') = Len(timerFlushes)
                         /\ timerFlushes'[k] # timerFlushes[k]]
C10_SinkSettles == mainFlush' # mainFlush \/ timerFlushes' # timerFlushes
C10_EditFailureFallsBack ==
  [][/\ (failures' = failures + 1 /\ C10_SinkSettles /\ C10_Settled.op = "edit") =>
          /\ ncalls' = ncalls + 1
          /\ lastCall'.op = "send"
          /\ lastCall'.flush = C10_Settled.id
          /\ lastCall'.content = C10_Settled.chunks[C10_Settled.i]
     /\ (handles' = handles + 1 /\ C10_SinkSettles /\ C10_Settled.stage = "fallback") =>
          discordMessage' = handles']_vars

\* C11: when some flush had its edit fail and its fallback create fail as
\* well, the value render returns is not one of the values a delivered render
\* returns (the session id captured, or null).
C11_DeliveredValues == {NoSession, MessageSessionId}
C11_FailureSurfaced ==
  (pc = "returned" /\ undelivered) => returned \notin C11_DeliveredValues

\* C12: render never raises an exception to its caller.
C12_RenderNeverThrows == pc # "threw"

\* C13: every content handed to the Sink is at most maxMessageLength characters
\* long, whatever the renderer holds, and so is every chunk of a split flush.
C13_SinkContentBounded ==
  /\ SLen(lastCall.content) <= opts.maxMessageLength
  /\ fn.name = "flushNow" =>
       \A i \in DOMAIN fn.out : SLen(fn.out[i]) <= opts.maxMessageLength

\* the tool section alone is over the limit, and the flush was cut to fit
C13_Witness ==
  /\ fn.name = "flushNow"
  /\ fn.done
  /\ ~isComplete
  /\ SLen(buildToolSection(toolCalls)) > opts.maxMessageLength
  /\ SLen(fn.out[1]) > opts.maxMessageLength - 50

\* C14: the chunks of splitContent, concatenated in order, are the content, and
\* each chunk is at most the limit long, for every content and every limit.
C14_SplitLosslessAndBounded ==
  fn.name = "splitContent" =>
    /\ \A i \in DOMAIN fn.chunks : SLen(fn.chunks[i]) <= fn.limit
    /\ fn.done => Join(fn.chunks, <<>>) = fn.content

\* C15: a flush of a finished session whose content is over the limit (5000
\* characters of text: at least 3 chunks) sends its first chunk by an edit of
\* the existing handle and every later chunk by one create, in chunk order, each
\* issued when the call before it has settled and not earlier.
C15_SplitFlushInOrder ==
  [][/\ (mainFlush'.stage = "chunks" /\ mainFlush.stage # "chunks") =>
          /\ profile = "split" => Len(mainFlush'.chunks) >= 3
          /\ discordMessage # 0
          /\ ncalls' = ncalls + 1
          /\ lastCall'.op = "edit"
          /\ lastCall'.target = discordMessage
          /\ lastCall'.idx = 1
          /\ lastCall'.flush = mainFlush'.id
          /\ lastCall'.content = mainFlush'.chunks[1]
     /\ (mainFlush.stage = "chunks" /\ mainFlush' # mainFlush) =>
          IF mainFlush.i < Len(mainFlush.chunks)
          THEN /\ ncalls' = ncalls + 1
               /\ lastCall'.op = "send"
               /\ lastCall'.idx = mainFlush.i + 1
               /\ lastCall'.flush = mainFlush.id
               /\ lastCall'.content = mainFlush.chunks[mainFlush.i + 1]
               /\ mainFlush' = [mainFlush EXCEPT !.i = @ + 1, !.op = "send"]
          ELSE ncalls' = ncalls /\ mainFlush' = NoFlush
     /\ (mainFlush.stage = "chunks" /\ mainFlush' = mainFlush /\ ncalls' = ncalls + 1) =>
          lastCall'.flush # mainFlush.id]_vars

\* the third chunk of the 5000 characters has been created, after the first
\* was edited in and the second created
C15_Witness ==
  /\ profile = "split"
  /\ failures = 0
  /\ mainFlush.stage = "chunks"
  /\ mainFlush.i = 3
  /\ Len(mainFlush.chunks) = 3
  /\ lastCall.op = "send"
  /\ lastCall.idx = 3
  /\ lastCall.content = mainFlush.chunks[3]

\* C16: over the upstream [tool start Read, delta 'Hello', delta ' world' at once,
\* tool finish, successful result] render issues at most 4 Sink calls in all.
C16_AtMostFourCalls ==
  (profile = "hello" /\ pc = "returned" /\ failures = 0) => ncalls <= 4

\* C17: of two flushes with no full-text replacement between them, the later
\* never shows less of the running text than the earlier, whatever happens to the
\* tool section and the status suffix in between.
RECURSIVE C17_ShownText(_)
C17_ShownText(content) ==
  IF content = <<>> THEN 0
  ELSE (IF content[1][1] = "x" THEN content[1][2] ELSE 0) + C17_ShownText(Tail(content))
C17_NextFlushNoSnapshot ==
  /\ ncalls' = ncalls + 1
  /\ lastCall.flush >= 1
  /\ lastCall'.flush > lastCall.flush
  /\ lastCall'.upto = consumed'
  /\ \/ consumed' = lastCall.upto
     \/ consumed' = lastCall.upto + 1 /\ lastMsg' # "text"
C17_TextNeverShrinks ==
  [][C17_NextFlushNoSnapshot =>
       C17_ShownText(lastCall'.content) >= C17_ShownText(lastCall.content)]_vars

\* C18: the Sink calls of a session are issued in the order of the session
\* states their contents were built from: no Sink call, a fallback create
\* included, carries a content built from fewer upstream messages than the
\* content of the Sink call issued before it.
C18_CallsInSnapshotOrder ==
  [][ncalls' = ncalls + 1 => lastCall'.upto >= lastCall.upto]_vars

\* C19: once a result message has set isComplete, a further upstream message
\* changes neither the running text, the tool ledger nor the completion and
\* error fields, and no flush is scheduled or issued for it.
C19_NoOpAfterComplete ==
  [][(isComplete /\ consumed' = consumed + 1) =>
       /\ UNCHANGED <<currentText, toolCalls, isComplete, hasError, errorMessage>>
       /\ UNCHANGED <<flushTimeout, pendingFlush, flushes, ncalls>>]_vars

\* C20: once a cancellation has been asked for during a render, no further
\* upstream message is consumed (and the timer is cancelled and one final flush
\* marks the session as cancelled).
C20_CancelStopsConsumption ==
  [][cancelRequested => consumed' = consumed]_vars

\* C21: no tool-call record is deleted during a session: the ledger holds one
\* record for every tool start consumed, also past the display window of 5.
C21_ToolStarts == Cardinality({i \in 1..consumed : Script[i].kind = "tool_use"})
C21_LedgerKeepsEveryCall == Scripted => Len(toolCalls) = C21_ToolStarts

\* C22: a tool finish marks complete the most recently started record that is
\* running, stores the output in it and leaves every other record as it is;
\* with no record running the ledger is unchanged, and a flush is issued either
\* way. No record that is complete becomes running again.
C22_Running == {k \in DOMAIN toolCalls : toolCalls[k].status = "running"}
C22_FinishStep ==
  /\ Len(toolCalls') = Len(toolCalls)
  /\ flushes' = flushes + 1
  /\ ncalls' = ncalls + 1
  /\ lastCall'.flush = flushes'
  /\ IF C22_Running = {} THEN toolCalls' = toolCalls
     ELSE /\ \A k \in DOMAIN toolCalls :
               k # SetMax(C22_Running) => toolCalls'[k] = toolCalls[k]
          /\ toolCalls'[SetMax(C22_Running)] =
               [toolCalls[SetMax(C22_Running)] EXCEPT !.status = "complete",
                                                      !.output = Rep("o", 4)]
C22_Kept ==
  IF lastMsg' = "tool_use" /\ consumed' = consumed + 1
  THEN Len(toolCalls') - 1
  ELSE Len(toolCalls')
C22_StaysComplete ==
  \A j \in 1..C22_Kept :
    toolCalls[Len(toolCalls) - C22_Kept + j].status = "complete" =>
      toolCalls'[j].status = "complete"
C22_FinishCompletesLatestRunning ==
  [][/\ (consumed' = consumed + 1 /\ lastMsg' = "tool_result") => C22_FinishStep
     /\ C22_StaysComplete]_vars

\* the later of two running records has been completed with its output, the
\* earlier one is still running
C22_Witness ==
  /\ Len(toolCalls) = 2
  /\ toolCalls[1].status = "running"
  /\ toolCalls[2].status = "complete"
  /\ toolCalls[2].output = Rep("o", 4)
  /\ lastMsg = "tool_result"

\* C23: splitContent takes the first usable boundary in the order: after a
\* closing code fence, paragraph break, line break, and the raw limit only when
\* none of the three is usable; a fence that is found but cannot be used does
\* not keep the paragraph and line boundaries from being tried.
C23_ByPriority(remaining, maxLen, codeBlockEnd, doubleNewline, singleNewline) ==
  IF /\ codeBlockEnd > maxLen - 500
     /\ codeBlockEnd > 100
     /\ AfterCodeBlock(remaining, codeBlockEnd) # -1
     /\ AfterCodeBlock(remaining, codeBlockEnd) <= maxLen
  THEN AfterCodeBlock(remaining, codeBlockEnd) + 1
  ELSE IF doubleNewline > maxLen - 300 /\ doubleNewline > 100 THEN doubleNewline + 2
  ELSE IF singleNewline > maxLen - 200 /\ singleNewline > 100 THEN singleNewline + 1
  ELSE maxLen
C23_SplitByPriority ==
  [][(fn.name = "splitContent" /\ fn.limit > 50 /\ Len(fn'.chunks) = Len(fn.chunks) + 1
        /\ ~fn'.done) =>
       SLen(fn'.chunks[Len(fn'.chunks)]) =
         C23_ByPriority(fn.remaining, fn.limit - 50,
                        LastIndexOf(fn.remaining, <<NL, BT, BT, BT>>, fn.limit - 50),
                        LastIndexOf(fn.remaining, <<NL, NL>>, fn.limit - 50),
                        LastIndexOf(fn.remaining, <<NL>>, fn.limit - 50))]_vars

\* C24: the content of every Sink call is non-empty, whatever the renderer holds
\* (nothing at all, tools hidden by showToolCalls = false, complete without
\* text) and for every chunk of a split flush; while the session is not over and
\* has neither text nor tool call, the content shows the placeholder.
C24_ContentNeverEmpty ==
  /\ ncalls > 0 => lastCall.content # <<>>
  /\ (fn.name = "flushNow" /\ fn.done) =>
       /\ Len(fn.out) >= 1
       /\ \A i \in DOMAIN fn.out : fn.out[i] # <<>>
       /\ (~isComplete /\ currentText = <<>> /\ toolCalls = <<>>) =>
            Take(fn.out[1], SLen(ThinkingText)) = ThinkingText

\* the tools are hidden, none is running and there is no text: the flush shows
\* the fallback text
C24_Witness ==
  /\ fn.name = "flushNow"
  /\ fn.done
  /\ ~opts.showToolCalls
  /\ toolCalls # <<>>
  /\ currentText = <<>>
  /\ ~isComplete
  /\ ~hasError
  /\ fn.out = <<ProcessingText>>

\* C25: render keeps the session id of the first message that carries a
\* non-empty one, whatever ids later messages carry, and returns it: null when
\* no message carried one, and the captured id also when the stream has thrown.
C25_CaptureStep ==
  IF consumed' = consumed + 1
  THEN sessionId' = IF sessionId = NoSession /\ lastSid' # "" THEN lastSid' ELSE sessionId
  ELSE sessionId' = sessionId
C25_ReturnsFirstSessionId ==
  [][/\ C25_CaptureStep
     /\ pc' = "returned" => returned' = sessionId'
     /\ (stopped' # "open" /\ mainFlush' = NoFlush) => pc' = "returned"]_vars

\* the stream threw after a message with an id and a message with another id;
\* render has returned the first
C25_Witness ==
  /\ pc = "returned"
  /\ stopped = "throw"
  /\ consumed >= 2
  /\ lastSid = "s2"
  /\ returned = MessageSessionId

\* C26: a message id starts processMessage at most once in any window of 30
\* seconds: the id is recorded in the step that takes the message up, an event
\* for it inside the window is skipped, and the cleanup never removes an id
\* that is still inside the window.
C26_StartedOnceInWindow ==
  [][/\ \A id \in TrackedIds :
          handled'.started[id] # handled.started[id] =>
            /\ \/ handled.started[id] = 0
               \/ now - handled.lastStart[id] >= MESSAGE_DEDUP_WINDOW_MS
            /\ processedMessages'[id] = now
     /\ \A i \in MessageIds :
          (processedMessages[i] # 0
             /\ now - processedMessages[i] < MESSAGE_DEDUP_WINDOW_MS) =>
            processedMessages'[i] # 0]_vars

\* the cleanup has removed the old entries, and a second event for a message
\* taken up inside the window has been skipped
C26_Witness ==
  /\ handled.removed = DedupCleanupSize
  /\ handled.skipped = 1
  /\ \E id \in TrackedIds :
       /\ handled.started[id] = 1
       /\ now - handled.lastStart[id] < MESSAGE_DEDUP_WINDOW_MS

\* C27: when render returns a non-null session id that differs from the one
\* stored for the thread, the thread's row holds that id afterwards and the next
\* message resumes with it; an empty stored id is never passed as the resume
\* id; and the row's message count goes up by exactly one for every
\* processMessage call that ends, whether render returned or threw.
C27_Ended == handled'.completed = handled.completed + 1
C27_Began == Len(runs') = Len(runs) + 1
C27_SessionStoredAndResumed ==
  [][/\ (/\ C27_Ended
         /\ handled'.last.kind = "returned"
         /\ handled'.last.newId \notin {NoSession, sessions.sessionId}) =>
          sessions'.sessionId = handled'.last.newId
     /\ C27_Ended => sessions'.messageCount = sessions.messageCount + 1
     /\ ~C27_Ended => sessions'.messageCount = sessions.messageCount
     /\ C27_Began =>
          /\ runs'[Len(runs')].resume # ""
          /\ runs'[Len(runs')].resume =
               IF sessions.exists /\ sessions.sessionId # ""
               THEN sessions.sessionId ELSE "undefined"]_vars

\* C28: a flush started by the debounce timer begins no earlier than debounceMs
\* after the beginning of the flush before it, whoever started that one; a timer
\* is armed for now + max(0, debounceMs - (now - lastFlushTime)), and a flush
\* started by render leaves no timer armed.
C28_TimerFlushBegins == Len(timerFlushes') = Len(timerFlushes) + 1
C28_RenderFlushBegins == flushes' = flushes + 1 /\ ~C28_TimerFlushBegins
C28_Armed == flushTimeout = NoTimer /\ flushTimeout' # NoTimer
C28_Delay ==
  IF opts.debounceMs - (now - lastFlushTime) > 0
  THEN opts.debounceMs - (now - lastFlushTime) ELSE 0
C28_TimerFlushAfterInterval ==
  [][/\ (C28_TimerFlushBegins /\ flushes > 0) => now' >= lastFlushTime + opts.debounceMs
     /\ C28_Armed => flushTimeout' = now + C28_Delay
     /\ C28_RenderFlushBegins => flushTimeout' = NoTimer
     /\ flushes' # flushes => lastFlushTime' = now']_vars

\* the timer has started a flush exactly debounceMs after the flush before it
C28_Witness ==
  /\ flushes >= 2
  /\ lastCall.trigger = "timer"
  /\ lastCall.flush = flushes
  /\ lastCall.gap = opts.debounceMs
  /\ lastFlushTime = now

\* C29: at most one debounce timer is pending at any time, and it is the one
\* flushTimeout refers to; a display-only event (text snapshot, text delta,
\* block event) marks the session dirty, starts no flush, arms a timer when
\* none is pending and otherwise leaves the pending one as it is; a timer that
\* expires always starts a flush, that flush leaves no timer pending and the
\* session clean, and its content is built from every event consumed so far
\* and shows the whole running text.
C29_DisplayEvent ==
  /\ consumed' = consumed + 1
  /\ lastMsg' \in {"text", "delta", "block"}
C29_TimerExpires == Len(timers') < Len(timers) /\ pc' = pc
C29_OneTimerOneFlush ==
  [][/\ Len(timers) <= 1
     /\ timers = IF flushTimeout = NoTimer THEN <<>> ELSE <<flushTimeout>>
     /\ C29_DisplayEvent =>
          /\ pendingFlush'
          /\ flushes' = flushes
          /\ Len(timers') = 1
          /\ timers # <<>> => timers' = timers
     /\ C29_TimerExpires =>
          /\ pendingFlush
          /\ flushes' = flushes + 1
          /\ Len(timerFlushes') = Len(timerFlushes) + 1
          /\ timers' = <<>>
          /\ ~pendingFlush'
          /\ lastCall'.flush = flushes'
          /\ lastCall'.trigger = "timer"
          /\ lastCall'.upto = consumed
          /\ currentText # <<>> => Contains(lastCall'.content, currentText)]_vars

\* two display-only events were consumed, the second while the timer of the
\* first was pending, and the one flush so far is the timer's, showing both
C29_Witness ==
  /\ consumed = 2
  /\ lastMsg = "delta"
  /\ flushes = 1
  /\ lastCall.trigger = "timer"
  /\ lastCall.upto = 2
  /\ currentText = Cat(X(5), X(5))
  /\ Contains(lastCall.content, currentText)
  /\ timers = <<>>

\* C30: while a display-only event is applied and not yet rendered, exactly
\* one timer is pending, it is due within debounceMs of the oldest such
\* event, and no more than debounceMs has passed since that event; the step
\* that ends this is the beginning of a flush, at that time, whose content is
\* built from every event consumed so far and shows the whole running text;
\* and when render has returned, no applied event is unrendered.
C30_Rendered == dirtySince # Clean /\ dirtySince' = Clean
C30_StalenessBounded ==
  [][/\ dirtySince' # Clean =>
          /\ pendingFlush'
          /\ Len(timers') = 1
          /\ timers'[1] <= dirtySince' + opts.debounceMs
          /\ now' <= dirtySince' + opts.debounceMs
     /\ C30_Rendered =>
          /\ flushes' = flushes + 1
          /\ lastCall'.flush = flushes'
          /\ lastCall'.at = now
          /\ lastCall'.at <= dirtySince + opts.debounceMs
          /\ lastCall'.upto = consumed'
          /\ currentText' # <<>> => Contains(lastCall'.content, currentText')
     /\ pc' = "returned" => dirtySince' = Clean /\ ~pendingFlush']_vars

\* a text delta that followed an urgent flush at once has been rendered by the
\* timer's flush, exactly debounceMs after it was applied
C30_Witness ==
  /\ lastMsg = "delta"
  /\ dirtySince = Clean
  /\ lastCall.trigger = "timer"
  /\ lastCall.flush = flushes
  /\ lastCall.upto = consumed
  /\ flushes >= 2
  /\ lastCall.at = now
  /\ lastCall.gap = opts.debounceMs
  /\ lastFlushTime = now

\* C31: a Sink call that carries a chunk of a split content is issued only by
\* a flush begun after a result message set isComplete; every other flush --
\* each one begun before that, and the flush of the catch block after the
\* upstream threw -- issues one call for a single message, plus at most one
\* fallback create after a failed edit.
C31_Issued == ncalls' = ncalls + 1
C31_FlushBegins == flushes' = flushes + 1
C31_SplitOnlyOnCompletion ==
  [][/\ (C31_Issued /\ lastCall'.split) => isComplete'
     /\ (C31_FlushBegins /\ ~isComplete') =>
          /\ C31_Issued
          /\ ~lastCall'.split
          /\ lastCall'.idx = 1
          /\ ~lastCall'.fallback
     /\ (C31_Issued /\ lastCall'.fallback) => lastCall'.op = "send" /\ ~lastCall'.split
     /\ (C31_FlushBegins /\ stopped = "open" /\ stopped' = "throw") =>
          /\ C31_Issued
          /\ ~lastCall'.split]_vars

\* C32: in the content buildMessageContent yields, truncating or not, the
\* completion marker is present exactly when isComplete holds and hasError
\* does not, the error marker exactly when hasError holds, the Running suffix
\* only when isComplete is false and a record of the ledger is running, and
\* the completion and error markers are never both present.
C32_Shows(content, marker) == \E i \in DOMAIN content : content[i] = marker[1]
C32_Consistent(content) ==
  /\ C32_Shows(content, CompleteMarker) <=> (isComplete /\ ~hasError)
  /\ C32_Shows(content, ErrorMarker) <=> hasError
  /\ C32_Shows(content, RunningPrefix) =>
       /\ ~isComplete
       /\ \E i \in DOMAIN toolCalls : toolCalls[i].status = "running"
  /\ ~(C32_Shows(content, CompleteMarker) /\ C32_Shows(content, ErrorMarker))
C33_Call(i) == [name |-> "Read", input |-> [NoInput EXCEPT !.file_path = Rep("p", 5 + i)]]
C33_Line(i) ==
  Cat(Cat(Rep("s", 1), Rep("c", 1)), formatToolCallCompact(C33_Call(i).name, C33_Call(i).input))
C33_First == IF consumed > MAX_TOOL_HISTORY THEN consumed - MAX_TOOL_HISTORY + 1 ELSE 1
C33_Section == Join([k \in 1..(consumed - C33_First + 1) |-> C33_Line(C33_First + k - 1)],
                    Rep(NL, 1))
C33_WindowIsLatestCalls ==
  (profile = "tools" /\ consumed > 0) =>
    /\ Len(toolCalls) <= 5
    /\ Len(toolCalls) = consumed - C33_First + 1
    /\ \A k \in DOMAIN toolCalls :
         /\ toolCalls[k].name = C33_Call(C33_First + k - 1).name
         /\ toolCalls[k].input = C33_Call(C33_First + k - 1).input
    /\ buildToolSection(toolCalls) = C33_Section
    /\ (lastCall.flush = flushes /\ lastCall.upto = consumed) =>
         /\ Contains(lastCall.content, C33_Section)
         /\ \A i \in 1..(C33_First - 1) : ~Contains(lastCall.content, C33_Line(i))

\* the sixth tool start has been flushed: five records, the first call's gone
C33_Witness ==
  /\ profile = "tools"
  /\ consumed = MAX_TOOL_HISTORY + 1
  /\ Len(toolCalls) = MAX_TOOL_HISTORY
  /\ toolCalls[1].input.file_path = Rep("p", 7)
  /\ lastCall.flush = flushes
  /\ lastCall.upto = consumed
  /\ ~Contains(lastCall.content, C33_Line(1))
  /\ Contains(lastCall.content, C33_Line(6))

\* C34: a full assistant text block replaces the running text by its text, a
\* text delta consumed with showPartialText appends its fragment at the end of
\* the running text, and no other step changes the running text; with
\* showPartialText off a stream event (text delta, block event, tool start
\* announced by content_block_start) leaves every field of the renderer as it
\* was, starts no flush and issues no Sink call.
C34_Consumes(kind) == consumed' = consumed + 1 /\ lastMsg' = kind
C34_NothingDone ==
  UNCHANGED <<toolCalls, currentText, isComplete, hasError, errorMessage, pendingFlush,
              flushTimeout, timers, lastFlushTime, discordMessage, mainFlush,
              timerFlushes, flushes, ncalls, pc>>
C34_TextFollowsEvents ==
  [][/\ C34_Consumes("text") => currentText' \in Snapshots
     /\ (C34_Consumes("delta") /\ opts.showPartialText) =>
          \E f \in Deltas : currentText' = Cat(currentText, f)
     /\ ~(C34_Consumes("text") \/ C34_Consumes("delta")) => currentText' = currentText
     /\ (~opts.showPartialText /\ (C34_Consumes("delta") \/ C34_Consumes("block"))) =>
          C34_NothingDone
     /\ (~opts.showPartialText /\ C34_Consumes("tool_use")) =>
          \/ C34_NothingDone
          \/ Len(toolCalls') = Len(toolCalls) + 1 /\ flushes' = flushes + 1]_vars

\* the fragment ending in a newline arrived after the other one and stands
\* after it in the running text
C34_Witness ==
  /\ opts.showPartialText
  /\ consumed = 2
  /\ lastMsg = "delta"
  /\ currentText = Cat(X(5), Cat(X(2), Rep(NL, 1)))

\* with showPartialText off two stream events were consumed and nothing was done
C34_WitnessQuiet ==
  /\ ~opts.showPartialText
  /\ consumed = 2
  /\ lastMsg = "delta"
  /\ flushes = 0
  /\ currentText = <<>>
  /\ toolCalls = <<>>

\* C35: every pass of splitContent's loop that does not end the loop leaves a
\* remaining content shorter than before, for every content and every limit,
\* so the loop ends.
C35_EveryPassShortens ==
  [][(fn.name = "splitContent" /\ Len(fn'.chunks) = Len(fn.chunks) + 1 /\ ~fn'.done) =>
       SLen(fn'.remaining) < SLen(fn.remaining)]_vars

\* C36: once render has returned no timer is armed or pending, pendingFlush is
\* false, no Sink call of the session is unsettled, and no Sink call is issued
\* any more.
C36_QuiescentAfterReturn ==
  [][pc = "returned" =>
       /\ flushTimeout = NoTimer
       /\ timers = <<>>
       /\ ~pendingFlush
       /\ InFlight = 0
       /\ ncalls' = ncalls]_vars

\* C37: the ledger holds at most one record for each tool invocation announced
\* so far, also when the invocation is announced by content_block_start and
\* again in the assistant message, and no Sink call's content lists the
\* invocation's line twice.
C37_Invocations == Cardinality({TwiceScript[i].call : i \in 1..consumed})
C37_Line == Cat(Cat(Rep("s", 1), Rep("c", 1)), formatToolCallCompact("Read", ReadInput))
C37_OneRecordPerInvocation ==
  profile = "twice" =>
    /\ Len(toolCalls) <= C37_Invocations
    /\ ~Contains(lastCall.content, Join(<<C37_Line, C37_Line>>, Rep(NL, 1)))

\* C38: when /clear was confirmed while a processMessage call was awaiting
\* render, the end of that call (render returning or throwing) leaves the
\* sessions table as it is: it neither recreates nor modifies a row of the
\* thread; and a message that finds no row starts a query without resume.
C38_EndsCleared ==
  /\ handled'.completed = handled.completed + 1
  /\ handled'.last.cleared
C38_ClearedRunLeavesNoSession ==
  [][/\ C38_EndsCleared => sessions' = sessions
     /\ (Len(runs') = Len(runs) + 1 /\ ~sessions.exists) =>
          runs'[Len(runs')].resume = "undefined"]_vars

\* C39: in every state, an armed timer (the handle in flushTimeout, or a timer
\* pending in the event loop) goes with pendingFlush being true; flushNow
\* leaves the flag false and no timer armed in the same step, scheduleFlush
\* leaves the flag true, and a timer that expires finds the flag true.
C39_FlushBegins == flushes' = flushes + 1
C39_TimerExpires == Len(timers') < Len(timers) /\ flushTimeout' = NoTimer /\ pc' = pc
C39_TimerImpliesDirty ==
  [][/\ (flushTimeout # NoTimer \/ timers # <<>>) => pendingFlush
     /\ (flushTimeout' # NoTimer \/ timers' # <<>>) => pendingFlush'
     /\ C39_FlushBegins => ~pendingFlush' /\ flushTimeout' = NoTimer /\ timers' = <<>>
     /\ (flushTimeout = NoTimer /\ flushTimeout' # NoTimer) => pendingFlush'
     /\ C39_TimerExpires => pendingFlush]_vars

\* a timer is armed and not yet due while the flag is set
C39_Witness ==
  /\ flushTimeout # NoTimer
  /\ timers = <<flushTimeout>>
  /\ flushTimeout > now
  /\ pendingFlush
  /\ flushes >= 1
====
